---------------------------- MODULE Spec2Model ----------------------------
(***************************************************************************)
(* tsuzuri: event-sourcing runtime.  Model of the persistence engine:      *)
(*   - the DynamoDB store (tsuzuri-dynamodb/src/store.rs) over its four    *)
(*     tables, with DynamoDB's TransactWriteItems / Query contract,        *)
(*   - the in-memory store (tsuzuri/src/mem_store.rs),                     *)
(*   - the EventSourced repository (tsuzuri/src/command/repository.rs).    *)
(*                                                                         *)
(* Strings are sequences of byte values, so that key formatting and the    *)
(* byte-wise ordering of DynamoDB sort keys are computed, not assumed.     *)
(* An Option is a sequence of length 0 (None) or 1 (Some).                 *)
(* An aggregate's state is the sequence of the event payloads applied to   *)
(* it (init = the empty sequence), the most discriminating aggregate.      *)
(***************************************************************************)
EXTENDS Integers, Sequences, FiniteSets, TLC

VARIABLES
    journal,            \* DynamoDB journal table: set of items, unique (pkey, skey)
    journal_aid_index,  \* DynamoDB GSI journal-aid-index: the items it has received
    snapshot,           \* DynamoDB snapshot table
    outbox,             \* DynamoDB outbox table
    events,             \* MemoryEventStore.events: aggregate id -> Vec of events
    snapshots,          \* MemoryEventStore.snapshots: aggregate id -> Option snapshot
    integration_events, \* MemoryEventStore.integration_events: Vec
    backend,            \* the store S the run is about: "DynamoDB" or "Memory"
    snapshot_interval,  \* the store's configured snapshot interval W
    callers,            \* clients of the store API (persist / get_snapshot)
    workers,            \* clients of EventSourced (load_aggregate / handle / commit)
    calls,              \* number of API calls begun so far
    inverted_index,     \* DynamoDB inverted-index table: items [pkey, skey]
    inverted_index_replica, \* what an eventually consistent read of that table sees
    indexes,            \* MemoryInvertedIndexStore.indexes: keyword -> set of ids
    committed_pairs,    \* history: pairs whose commit returned Ok, not removed since
    routes,             \* ProcessorBasedEventRouter.routes: the registered keys
    invoked,            \* the processors invoked by the last process_bytes, in order
    probe,              \* the last call of an operation by a client: arguments, result
    executed,           \* the events the adapter executed in the last process_bytes
    loader              \* the load_aggregates call under way

dynVars == <<journal, journal_aid_index, snapshot, outbox>>
memVars == <<events, snapshots, integration_events>>
extVars == <<executed, loader>>
auxVars == <<inverted_index, inverted_index_replica, indexes, committed_pairs,
             routes, invoked, probe, extVars>>
vars == <<journal, journal_aid_index, snapshot, outbox, events, snapshots,
          integration_events, backend, snapshot_interval, callers, workers, calls,
          auxVars>>

(***************************************************************************)
(* Bounds of the model.                                                    *)
(***************************************************************************)
MaxCalls == 2
MaxInterval == 2
MaxCommits == 4
MaxSnapshotInterval == 10
MaxSequence == 10
MaxEvents == 12
MaxBatch == 26
MaxConcurrentLimit == 2
MaxApplied == 3
MaxPayloadLen == 4
MaxRecords == 3

(***************************************************************************)
(* Program constants.                                                      *)
(***************************************************************************)
ShardCount == 4
TransactionLimit == 25
DefaultConcurrentLimit == 10
DefaultSnapshotInterval == 100

None == <<>>
Some(x) == <<x>>

\* T::TYPE of the one aggregate type of the model, the string "T"
TYPE == <<84>>
\* aggregate ids: the strings "A", "B"
AggregateIds == {<<65>>, <<66>>}
Callers == {1, 2}

(***************************************************************************)
(* Strings.                                                                *)
(***************************************************************************)
RECURSIVE to_string(_)
\* usize::to_string: decimal digits, no padding
to_string(n) ==
    IF n < 10 THEN <<48 + n>> ELSE to_string(n \div 10) \o <<48 + (n % 10)>>

\* byte-wise lexicographic order of strings (DynamoDB's order of S sort keys)
StrLeq(a, b) ==
    \E k \in 0..Len(a) :
        /\ k <= Len(b)
        /\ \A i \in 1..k : a[i] = b[i]
        /\ \/ k = Len(a)
           \/ (k < Len(b) /\ a[k + 1] < b[k + 1])

\* std DefaultHasher (SipHash-1-3, zero keys) of the id string, low 16 bits;
\* computed from the algorithm for the ids of the model
DefaultHasher(id) ==
    CASE id = <<65>> -> 59043
      [] id = <<66>> -> 13211
      [] id = <<67>> -> 59401

resolve_partition_key(id, name, shard_count) ==
    name \o <<45>> \o to_string(DefaultHasher(id) % shard_count)

resolve_sort_key(name, id, seq_nr) ==
    name \o <<45>> \o id \o <<45>> \o to_string(seq_nr)

(***************************************************************************)
(* DynamoDB store: the transaction items the store builds.                 *)
(* A domain event is [id, aggregate_id, seq_nr, payload], an integration   *)
(* event [id, aggregate_id, payload], a snapshot [aggregate_id, aggregate, *)
(* seq_nr, version]; aggregate_type is TYPE throughout, event_type and     *)
(* metadata play no part in any key or condition.                          *)
(***************************************************************************)
saturating_sub(a, b) == IF a > b THEN a - b ELSE 0

\* JournalPut without its condition expression
JournalPutUnconditional(event) ==
    [table |-> "journal",
     item |-> [pkey |-> resolve_partition_key(event.aggregate_id, TYPE, ShardCount),
               skey |-> resolve_sort_key(TYPE, event.aggregate_id, event.seq_nr),
               aid |-> event.aggregate_id,
               seq_nr |-> event.seq_nr,
               event_id |-> event.id,
               payload |-> event.payload],
     condition |-> "none",
     expected |-> 0]

\* the Put of one journal row, with its condition expression
JournalPut(event) ==
    [table |-> "journal",
     item |-> [pkey |-> resolve_partition_key(event.aggregate_id, TYPE, ShardCount),
               skey |-> resolve_sort_key(TYPE, event.aggregate_id, event.seq_nr),
               aid |-> event.aggregate_id,
               seq_nr |-> event.seq_nr,
               event_id |-> event.id,
               payload |-> event.payload],
     condition |-> "attribute_not_exists(seq_nr)",
     expected |-> 0]

build_domain_event_put_transactions(domain_events) ==
    [transactions |-> [i \in 1..Len(domain_events) |-> JournalPut(domain_events[i])],
     current_seq_nr |-> IF domain_events = <<>> THEN 0
                        ELSE domain_events[Len(domain_events)].seq_nr]

OutboxPut(event) ==
    [table |-> "outbox",
     item |-> [pkey |-> resolve_partition_key(event.aggregate_id, TYPE, ShardCount),
               skey |-> event.id,
               aid |-> event.aggregate_id,
               payload |-> event.payload,
               status |-> "PENDING",
               attempts |-> 0],
     condition |-> "none",
     expected |-> 0]

\* the outbox Puts without the one of the last integration event
build_integration_event_put_all_but_last(integration_events_) ==
    [i \in 1..(Len(integration_events_) - 1) |-> OutboxPut(integration_events_[i])]

build_integration_event_put_transactions(integration_events_) ==
    [i \in 1..Len(integration_events_) |-> OutboxPut(integration_events_[i])]

build_all_event_transactions(domain_events, integration_events_) ==
    LET d == build_domain_event_put_transactions(domain_events)
    IN  [transactions |->
            IF integration_events_ # <<>>
            THEN d.transactions \o build_integration_event_put_transactions(integration_events_)
            ELSE d.transactions,
         current_seq_nr |-> d.current_seq_nr]

\* the Put of the snapshot row that update_snapshot appends
SnapshotPut(snapshot_, current_seq_nr) ==
    [table |-> "snapshot",
     item |-> [pkey |-> resolve_partition_key(snapshot_.aggregate_id, TYPE, ShardCount),
               skey |-> resolve_sort_key(TYPE, snapshot_.aggregate_id, current_seq_nr),
               aid |-> snapshot_.aggregate_id,
               seq_nr |-> current_seq_nr,
               version |-> snapshot_.version,
               payload |-> snapshot_.aggregate],
     condition |-> "attribute_not_exists(version) OR version = :version",
     expected |-> saturating_sub(snapshot_.version, 1)]

update_snapshot_transactions(snapshot_, domain_events, integration_events_) ==
    LET a == build_all_event_transactions(domain_events, integration_events_)
    IN  a.transactions \o <<SnapshotPut(snapshot_, a.current_seq_nr)>>

(***************************************************************************)
(* DynamoDB: TransactWriteItems.  All condition expressions are evaluated  *)
(* against the tables as they are; if one fails the transaction is         *)
(* cancelled (ConditionalCheckFailed) and nothing is written, otherwise    *)
(* every Put is applied.  A Put replaces the item with the same key.       *)
(***************************************************************************)
Table(name) ==
    CASE name = "journal" -> journal
      [] name = "outbox" -> outbox
      [] name = "snapshot" -> snapshot

SameKey(r, item) == r.pkey = item.pkey /\ r.skey = item.skey

ConditionHolds(t) ==
    CASE t.condition = "attribute_not_exists(seq_nr)" ->
            \A r \in Table(t.table) : ~SameKey(r, t.item)
      [] t.condition = "attribute_not_exists(version) OR version = :version" ->
            \A r \in Table(t.table) : SameKey(r, t.item) => r.version = t.expected
      [] t.condition = "none" -> TRUE

TableAfter(name, transactions) ==
    LET puts == {transactions[i].item : i \in {j \in 1..Len(transactions) :
                                               transactions[j].table = name}}
    IN  {r \in Table(name) : \A item \in puts : ~SameKey(r, item)} \cup puts

\* the outcome of a store call that writes nothing
Unchanged(error) ==
    [error |-> error, journal |-> journal, outbox |-> outbox, snapshot |-> snapshot,
     events |-> events, snapshots |-> snapshots,
     integration_events |-> integration_events]

transact_write_items(transactions) ==
    IF \A i \in 1..Len(transactions) : ConditionHolds(transactions[i])
    THEN [Unchanged("Ok") EXCEPT
              !.journal = TableAfter("journal", transactions),
              !.outbox = TableAfter("outbox", transactions),
              !.snapshot = TableAfter("snapshot", transactions)]
    ELSE Unchanged("ConditionalCheckFailed")

\* the error mapping without the scan of the cancellation reasons
FromTransactWriteItemsErrorNoReasons(error) ==
    CASE error = "Ok" -> "Ok"
      [] OTHER -> "UnknownError"

\* From<SdkError<TransactWriteItemsError>> for DynamoAggregateError
FromTransactWriteItemsError(error) ==
    CASE error = "Ok" -> "Ok"
      [] error = "ConditionalCheckFailed" -> "OptimisticLock"
      [] OTHER -> "UnknownError"

commit_transactions(transactions) ==
    IF Len(transactions) > TransactionLimit
    THEN Unchanged("TransactionListTooLong")
    ELSE LET r == transact_write_items(transactions)
         IN  [r EXCEPT !.error = FromTransactWriteItemsError(r.error)]

insert_events(domain_events, integration_events_) ==
    IF domain_events = <<>>
    THEN Unchanged("Ok")
    ELSE commit_transactions(
             build_all_event_transactions(domain_events, integration_events_).transactions)

\* update_snapshot as two transactions: the events, then the snapshot row
update_snapshot_split(snapshot_, domain_events, integration_events_) ==
    LET a == build_all_event_transactions(domain_events, integration_events_)
        first == commit_transactions(a.transactions)
        put == SnapshotPut(snapshot_, a.current_seq_nr)
    IN  IF first.error # "Ok" THEN first
        ELSE IF ConditionHolds(put)
             THEN [first EXCEPT !.snapshot = TableAfter("snapshot", <<put>>)]
             ELSE [first EXCEPT !.error = "OptimisticLock"]

update_snapshot(snapshot_, domain_events, integration_events_) ==
    commit_transactions(
        update_snapshot_transactions(snapshot_, domain_events, integration_events_))

\* From<DynamoAggregateError> for PersistenceError
ToPersistenceError(error) ==
    CASE error = "Ok" -> "Ok"
      [] error = "OptimisticLock" -> "OptimisticLockError"
      [] OTHER -> "UnknownError"

\* impl Persister for DynamoDB
DynamoDB_persist(domain_events, integration_events_, snapshot_update) ==
    LET r == IF snapshot_update = None
             THEN insert_events(domain_events, integration_events_)
             ELSE update_snapshot(snapshot_update[1], domain_events, integration_events_)
    IN  [r EXCEPT !.error = ToPersistenceError(r.error)]

(***************************************************************************)
(* DynamoDB: Query on the snapshot table, and get_snapshot.                *)
(***************************************************************************)
RECURSIVE SortBySkey(_)
\* a Query returns the matching items in ascending order of the sort key
SortBySkey(S) ==
    IF S = {} THEN <<>>
    ELSE LET m == CHOOSE x \in S : \A y \in S : StrLeq(x.skey, y.skey)
         IN  <<m>> \o SortBySkey(S \ {m})

\* create_query + send: "#pkey = :pkey AND #skey >= :skey", consistent read
query_table(table, aggregate_type, aggregate_id, shard_count, seq_nr) ==
    LET pkey == resolve_partition_key(aggregate_id, aggregate_type, shard_count)
        skey == resolve_sort_key(aggregate_type, aggregate_id, seq_nr)
    IN  SortBySkey({r \in table : r.pkey = pkey /\ StrLeq(skey, r.skey)})

DynamoDB_get_snapshot(id) ==
    LET query_items_vec == query_table(snapshot, TYPE, id, ShardCount, 0)
    IN  IF query_items_vec = <<>> THEN None
        ELSE LET query_item == query_items_vec[Len(query_items_vec)]
             IN  Some([aggregate_id |-> id,
                       aggregate |-> query_item.payload,
                       seq_nr |-> query_item.seq_nr,
                       version |-> query_item.version])

\* serialized_event: a journal item read back as a SerializedDomainEvent
serialized_event(entry) ==
    [id |-> entry.event_id, aggregate_id |-> entry.aid, seq_nr |-> entry.seq_nr,
     payload |-> entry.payload]

RECURSIVE SortBySeqNr(_)
SortBySeqNr(S) ==
    IF S = {} THEN <<>>
    ELSE LET m == CHOOSE x \in S : \A y \in S : x.seq_nr <= y.seq_nr
         IN  <<m>> \o SortBySeqNr(S \ {m})

\* get_stream: Query on the index journal-aid-index, "#aid = :aid AND #seq >= :seq",
\* consistent_read(false): it reads what the index has received
get_stream(aggregate_id, seq_nr) ==
    SortBySeqNr({r \in journal_aid_index : r.aid = aggregate_id /\ r.seq_nr >= seq_nr})

\* impl AggregateEventStreamer for DynamoDB; select is None (All) or Some(n) (From(n))
DynamoDB_stream_events(id, select) ==
    LET items == get_stream(id, IF select = None THEN 1 ELSE select[1])
    IN  [i \in 1..Len(items) |-> serialized_event(items[i])]

(***************************************************************************)
(* The in-memory store.                                                    *)
(***************************************************************************)
\* impl AggregateEventStreamer for MemoryEventStore
Memory_stream_events(id, select) ==
    LET aggregate_events == events[id]
    IN  IF select = None THEN aggregate_events
        ELSE SelectSeq(aggregate_events, LAMBDA e : e.seq_nr >= select[1])

\* impl Persister for MemoryEventStore
Memory_persist(domain_events, integration_events_, snapshot_update) ==
    [Unchanged("Ok") EXCEPT
        !.events = IF domain_events # <<>>
                   THEN [events EXCEPT ![domain_events[1].aggregate_id] =
                                            @ \o domain_events]
                   ELSE events,
        !.integration_events = integration_events \o integration_events_,
        !.snapshots = IF snapshot_update # None
                      THEN [snapshots EXCEPT ![snapshot_update[1].aggregate_id] =
                                                 snapshot_update]
                      ELSE snapshots]

\* impl SnapshotGetter for MemoryEventStore
Memory_get_snapshot(id) == snapshots[id]

(***************************************************************************)
(* The store S: EventStore behind the API.                                 *)
(***************************************************************************)
persist(domain_events, integration_events_, snapshot_update) ==
    IF backend = "DynamoDB"
    THEN DynamoDB_persist(domain_events, integration_events_, snapshot_update)
    ELSE Memory_persist(domain_events, integration_events_, snapshot_update)

get_snapshot(id) ==
    IF backend = "DynamoDB" THEN DynamoDB_get_snapshot(id) ELSE Memory_get_snapshot(id)

stream_events(id, select) ==
    IF backend = "DynamoDB" THEN DynamoDB_stream_events(id, select)
    ELSE Memory_stream_events(id, select)

\* the stored events of an aggregate, in the order of the log
StoredEvents(id) ==
    IF backend = "DynamoDB"
    THEN LET items == SortBySeqNr({r \in journal : r.aid = id})
         IN  [i \in 1..Len(items) |-> serialized_event(items[i])]
    ELSE events[id]

EventStored(a, s) == \E i \in 1..Len(StoredEvents(a)) : StoredEvents(a)[i].seq_nr = s

\* the primed store variables take the outcome of a store call
StoreBecomes(r) ==
    /\ journal' = r.journal
    /\ outbox' = r.outbox
    /\ snapshot' = r.snapshot
    /\ events' = r.events
    /\ snapshots' = r.snapshots
    /\ integration_events' = r.integration_events

(***************************************************************************)
(* Clients of the store API.  A persist call is two steps, the call (the   *)
(* arguments are fixed and the transaction is built) and the transaction   *)
(* at DynamoDB, so that calls of different callers overlap; a caller whose *)
(* call has returned (pc = "done") keeps its result until its next call.   *)
(* Ids of events are fresh per call, as generated ids are.  fresh records  *)
(* that no journal row of the call's events existed when the call began.   *)
(***************************************************************************)
SeqNrs == {9, 10}
Versions == {1, 2}

\* no call has been made
NoProbe == [op |-> "none"]

NoLoader ==
    [pc |-> "idle", concurrent_limit |-> DefaultConcurrentLimit, keyword |-> <<>>,
     pending |-> {}, in_flight |-> {}, aggregates |-> <<>>]

IdleCaller ==
    [pc |-> "idle", op |-> "none", id |-> <<>>, domain_events |-> <<>>,
     integration_events |-> <<>>, snapshot_update |-> None, result |-> "none",
     fresh |-> FALSE, got |-> None]

IdleWorker ==
    [pc |-> "idle", id |-> <<>>, snapshot |-> None, aggregate |-> <<>>,
     version |-> 0, seq_nr |-> 0, result |-> "none", failed_seq_nr |-> 0]

DomainEvent(a, s, n) == [id |-> <<n, s>>, aggregate_id |-> a, seq_nr |-> s, payload |-> n]

Batches(a, n) == {<<>>} \cup {<<DomainEvent(a, s, n)>> : s \in SeqNrs}

IntegrationBatches(a, n) ==
    {<<>>, <<[id |-> n, aggregate_id |-> a, payload |-> n]>>}

LastSeqNr(domain_events) ==
    IF domain_events = <<>> THEN 0 ELSE domain_events[Len(domain_events)].seq_nr

SnapshotUpdates(a, n, domain_events) ==
    {None} \cup
    {Some([aggregate_id |-> a, aggregate |-> n, seq_nr |-> s, version |-> v]) :
        s \in {LastSeqNr(domain_events)}, v \in Versions}

CallPersist(c) ==
    /\ callers[c].pc \in {"idle", "done"}
    /\ calls < MaxCalls
    /\ \E a \in AggregateIds :
         \E evs \in Batches(a, calls + 1) :
           \E ies \in IntegrationBatches(a, calls + 1) :
             \E snap \in SnapshotUpdates(a, calls + 1, evs) :
               callers' = [callers EXCEPT ![c] =
                   [IdleCaller EXCEPT !.pc = "persist", !.op = "persist", !.id = a,
                                      !.domain_events = evs,
                                      !.integration_events = ies,
                                      !.snapshot_update = snap,
                                      !.fresh = \A i \in 1..Len(evs) :
                                                   ~EventStored(a, evs[i].seq_nr)]]
    /\ calls' = calls + 1
    /\ UNCHANGED <<dynVars, memVars, backend, snapshot_interval, auxVars, workers>>

PersistTransact(c) ==
    /\ callers[c].pc = "persist"
    /\ LET r == persist(callers[c].domain_events,
                        callers[c].integration_events,
                        callers[c].snapshot_update)
       IN  /\ StoreBecomes(r)
           /\ callers' = [callers EXCEPT ![c].pc = "done", ![c].result = r.error]
    /\ UNCHANGED <<journal_aid_index, backend, snapshot_interval, auxVars, workers, calls>>

CallGetSnapshot(c) ==
    /\ callers[c].pc \in {"idle", "done"}
    /\ \E id \in AggregateIds :
         callers' = [callers EXCEPT ![c] =
             [IdleCaller EXCEPT !.pc = "done", !.op = "get_snapshot", !.id = id,
                                !.result = "Ok", !.got = get_snapshot(id)]]
    /\ UNCHANGED <<dynVars, memVars, backend, snapshot_interval, auxVars, workers, calls>>

InitCommon ==
    /\ journal = {}
    /\ journal_aid_index = {}
    /\ snapshot = {}
    /\ outbox = {}
    /\ events = [a \in AggregateIds |-> <<>>]
    /\ snapshots = [a \in AggregateIds |-> None]
    /\ integration_events = <<>>
    /\ callers = [c \in Callers |-> IdleCaller]
    /\ workers = [w \in Callers |-> IdleWorker]
    /\ calls = 0
    /\ inverted_index = {}
    /\ inverted_index_replica = {}
    /\ indexes = [keyword \in {} |-> {}]
    /\ committed_pairs = {}
    /\ routes = {}
    /\ invoked = <<>>
    /\ probe = NoProbe
    /\ executed = <<>>
    /\ loader = NoLoader

InitDyn == InitCommon /\ backend = "DynamoDB" /\ snapshot_interval = 1

InitMem == InitCommon /\ backend = "Memory" /\ snapshot_interval = 1

NextStore ==
    \E c \in Callers :
        \/ CallPersist(c)
        \/ PersistTransact(c)
        \/ CallGetSnapshot(c)

\* the DynamoDB store under concurrent callers of its API
SpecDyn == InitDyn /\ [][NextStore]_vars

\* the in-memory store under concurrent callers of its API
SpecMem == InitMem /\ [][NextStore]_vars

(***************************************************************************)
(* The repository EventSourced<T, S, ...> over the store.  The aggregate   *)
(* T of the model keeps its id and the list of the events applied to it;   *)
(* the serdes wrap a value as a JSON document.  A worker handles one       *)
(* command at a time: load_aggregate (get_snapshot, then the replay of     *)
(* stream_events), handle, commit; it keeps the result of its commit       *)
(* until its next load.                                                    *)
(***************************************************************************)
\* the n-th command handled yields the event n
DomainEvents == 1..MaxCommits

T_init(id) == [id |-> id, applied |-> <<>>]

T_apply(aggregate, event) == [aggregate EXCEPT !.applied = Append(@, event)]

\* DomainEvent::into_integration_events: an even event derives one integration event
into_integration_events(event) == IF event % 2 = 0 THEN <<event>> ELSE <<>>

serialize(value) == [json |-> value]

deserialize(bytes) == bytes.json

\* the interval rule without the events after the next snapshot
commit_snapshot_next_only(current_sequence, num_events) ==
    LET max_size == snapshot_interval
        next_snapshot_at == max_size - (current_sequence % max_size)
    IN  IF num_events < next_snapshot_at THEN 0 ELSE next_snapshot_at

\* the interval rule that returns every event of the commit once a snapshot is due
commit_snapshot_all_events(current_sequence, num_events) ==
    LET max_size == snapshot_interval
        next_snapshot_at == max_size - (current_sequence % max_size)
    IN  IF num_events < next_snapshot_at THEN 0 ELSE num_events

\* EventStore::commit_snapshot_with_addl_events
commit_snapshot_with_addl_events(current_sequence, num_events) ==
    LET max_size == snapshot_interval
        next_snapshot_at == max_size - (current_sequence % max_size)
        addl_events_after_next_snapshot == num_events - next_snapshot_at
        addl_events_after_next_snapshot_to_apply ==
            addl_events_after_next_snapshot
                - (addl_events_after_next_snapshot % max_size)
    IN  IF num_events < next_snapshot_at THEN 0
        ELSE next_snapshot_at + addl_events_after_next_snapshot_to_apply

\* EventSourced::prepare_events; n makes the generated ids fresh
prepare_events(versioned_aggregate, event, n) ==
    LET aggregate_id == versioned_aggregate.aggregate.id
        derived == into_integration_events(event)
    IN  [domain_event |->
             [id |-> <<n>>, aggregate_id |-> aggregate_id,
              seq_nr |-> versioned_aggregate.seq_nr + 1,
              payload |-> serialize(event)],
         integration_events |->
             [i \in 1..Len(derived) |->
                 [id |-> <<n, i>>, aggregate_id |-> aggregate_id,
                  payload |-> serialize(derived[i])]]]

\* a snapshot preparation that keeps the version of the loaded aggregate
prepare_snapshot_same_version(versioned_aggregate) ==
    IF commit_snapshot_with_addl_events(versioned_aggregate.seq_nr, 1) = 0
    THEN None
    ELSE Some([aggregate_id |-> versioned_aggregate.aggregate.id,
               aggregate |-> serialize(versioned_aggregate.aggregate),
               seq_nr |-> versioned_aggregate.seq_nr,
               version |-> versioned_aggregate.version])

\* EventSourced::prepare_snapshot_if_needed
prepare_snapshot_if_needed(versioned_aggregate) ==
    IF commit_snapshot_with_addl_events(versioned_aggregate.seq_nr, 1) = 0
    THEN None
    ELSE Some([aggregate_id |-> versioned_aggregate.aggregate.id,
               aggregate |-> serialize(versioned_aggregate.aggregate),
               seq_nr |-> versioned_aggregate.seq_nr,
               version |-> versioned_aggregate.version + 1])

\* load_aggregate up to VersionedAggregate::from_snapshot
LoadSnapshot(w) ==
    /\ workers[w].pc \in {"idle", "done"}
    /\ \E id \in AggregateIds :
         LET got == get_snapshot(id)
             retry == /\ workers[w].result = "OptimisticLockError"
                      /\ workers[w].id = id
         IN  workers' = [workers EXCEPT ![w] =
                 [pc |-> "replay", id |-> id, snapshot |-> got,
                  aggregate |-> IF got = None THEN T_init(id)
                                ELSE deserialize(got[1].aggregate),
                  version |-> IF got = None THEN 0 ELSE got[1].version,
                  seq_nr |-> IF got = None THEN 0 ELSE got[1].seq_nr,
                  result |-> "none",
                  failed_seq_nr |-> IF retry THEN workers[w].seq_nr + 1 ELSE 0]]
    /\ UNCHANGED <<dynVars, memVars, backend, snapshot_interval, auxVars, callers, calls>>

\* the closure of load_aggregate folded over the stream: set_seq_nr, apply
RECURSIVE try_fold(_, _)

try_fold(versioned_aggregate, persisted) ==
    IF persisted = <<>> THEN versioned_aggregate
    ELSE try_fold([versioned_aggregate EXCEPT
                       !.seq_nr = Head(persisted).seq_nr,
                       !.aggregate = T_apply(@, deserialize(Head(persisted).payload))],
                  Tail(persisted))

\* load_aggregate: the fold over stream_events(id, From(seq_nr))
ReplayEvents(w) ==
    /\ workers[w].pc = "replay"
    /\ LET persisted == stream_events(workers[w].id, Some(workers[w].seq_nr))
           ctx == try_fold(workers[w], persisted)
       IN  workers' = [workers EXCEPT ![w] = [ctx EXCEPT !.pc = "loaded"]]
    /\ UNCHANGED <<dynVars, memVars, backend, snapshot_interval, auxVars, callers, calls>>

\* handle of a command that yields event, then AggregateCommiter::commit
Commit(w) ==
    /\ workers[w].pc = "loaded"
    /\ calls < MaxCommits
    /\ \E event \in DomainEvents \cap {calls + 1} :
         LET prepared == prepare_events(workers[w], event, calls + 1)
             serialized_snapshot == prepare_snapshot_if_needed(workers[w])
             r == persist(<<prepared.domain_event>>, prepared.integration_events,
                          serialized_snapshot)
         IN  /\ StoreBecomes(r)
             /\ workers' = [workers EXCEPT ![w] =
                    IF r.error = "Ok"
                    THEN [IdleWorker EXCEPT !.pc = "done", !.result = r.error]
                    ELSE [IdleWorker EXCEPT !.pc = "done", !.result = r.error,
                                            !.id = workers[w].id,
                                            !.seq_nr = workers[w].seq_nr]]
    /\ calls' = calls + 1
    /\ UNCHANGED <<journal_aid_index, backend, snapshot_interval, auxVars, callers>>

\* the index journal-aid-index receives a journal row
IndexPropagate ==
    /\ \E r \in journal \ journal_aid_index :
         journal_aid_index' = journal_aid_index \cup {r}
    /\ UNCHANGED <<journal, snapshot, outbox, memVars, backend, snapshot_interval, auxVars,
                   callers, workers, calls>>

InitES == InitCommon /\ snapshot_interval \in 1..MaxInterval

InitMemES == InitES /\ backend = "Memory"

InitDynES == InitES /\ backend = "DynamoDB"

NextES ==
    \E w \in Callers :
        \/ LoadSnapshot(w)
        \/ ReplayEvents(w)
        \/ Commit(w)

NextDynES == NextES \/ IndexPropagate

\* the repository over the in-memory store
SpecMemES == InitMemES /\ [][NextES]_vars

\* the repository over the DynamoDB store
SpecDynES == InitDynES /\ [][NextDynES]_vars

(***************************************************************************)
(* The snapshot-interval rule called on its own, for a store of any        *)
(* interval.                                                               *)
(***************************************************************************)
CallCommitSnapshot ==
    /\ \E current_sequence \in 0..MaxSequence, num_events \in 0..MaxEvents :
         probe' = [op |-> "commit_snapshot_with_addl_events",
                   current_sequence |-> current_sequence,
                   num_events |-> num_events,
                   ret |-> commit_snapshot_with_addl_events(current_sequence,
                                                            num_events)]
    /\ UNCHANGED <<dynVars, memVars, backend, snapshot_interval, callers, workers,
                   calls, extVars, inverted_index, inverted_index_replica, indexes,
                   committed_pairs, routes, invoked>>

InitInterval ==
    /\ InitCommon
    /\ backend = "Memory"
    /\ snapshot_interval \in 1..MaxSnapshotInterval

NextInterval == CallCommitSnapshot

SpecInterval == InitInterval /\ [][NextInterval]_vars

(***************************************************************************)
(* The inverted index (keyword -> aggregate ids).  In DynamoDB it is a     *)
(* table of rows [pkey = keyword, skey = aggregate_id]; writes go through  *)
(* TransactWriteItems on the table, the Query of query_inverted_index      *)
(* sets no consistent_read and is therefore eventually consistent: it is   *)
(* answered from inverted_index_replica.  In memory it is the map indexes. *)
(* A call's outcome is [error, inverted_index, indexes].                   *)
(***************************************************************************)
Keywords == {<<75>>, <<76>>}

IndexUnchanged(error) ==
    [error |-> error, inverted_index |-> inverted_index, indexes |-> indexes]

InvertedIndexItem(aggregate_id, keyword) == [pkey |-> keyword, skey |-> aggregate_id]

\* DynamoDB::insert_inverted_index
insert_inverted_index(aggregate_id, keyword) ==
    LET item == InvertedIndexItem(aggregate_id, keyword)
        \* "attribute_not_exists(pkey) AND attribute_not_exists(skey)"
        outcome == IF \E r \in inverted_index : SameKey(r, item)
                   THEN "ConditionalCheckFailed"
                   ELSE "Ok"
    IN  IF outcome = "Ok"
        THEN [IndexUnchanged(FromTransactWriteItemsError(outcome)) EXCEPT
                  !.inverted_index = inverted_index \cup {item}]
        ELSE IndexUnchanged(FromTransactWriteItemsError(outcome))

\* DynamoDB::query_inverted_index
query_inverted_index(keyword) ==
    {item.skey : item \in {r \in inverted_index_replica : r.pkey = keyword}}

\* the Delete with the condition that the row exists
remove_inverted_index_if_exists(aggregate_id, keyword) ==
    LET item == InvertedIndexItem(aggregate_id, keyword)
    IN  IF \E r \in inverted_index : SameKey(r, item)
        THEN [IndexUnchanged(FromTransactWriteItemsError("Ok")) EXCEPT
                  !.inverted_index = {r \in inverted_index : ~SameKey(r, item)}]
        ELSE IndexUnchanged(FromTransactWriteItemsError("ConditionalCheckFailed"))

\* DynamoDB::remove_inverted_index
remove_inverted_index(aggregate_id, keyword) ==
    LET item == InvertedIndexItem(aggregate_id, keyword)
    IN  [IndexUnchanged(FromTransactWriteItemsError("Ok")) EXCEPT
             !.inverted_index = {r \in inverted_index : ~SameKey(r, item)}]

\* impl AggregateIdsLoader for DynamoDB
DynamoDB_get_aggregate_ids(keyword) == query_inverted_index(keyword)

\* impl InvertedIndexCommiter for DynamoDB
DynamoDB_commit(aggregate_id, keyword) ==
    LET r == insert_inverted_index(aggregate_id, keyword)
    IN  [r EXCEPT !.error = ToPersistenceError(r.error)]

\* impl InvertedIndexRemover for DynamoDB
DynamoDB_remove(aggregate_id, keyword) ==
    LET r == remove_inverted_index(aggregate_id, keyword)
    IN  [r EXCEPT !.error = ToPersistenceError(r.error)]

\* impl AggregateIdsLoader for MemoryInvertedIndexStore
Memory_get_aggregate_ids(keyword) ==
    IF keyword \in DOMAIN indexes THEN indexes[keyword] ELSE {}

\* impl InvertedIndexCommiter for MemoryInvertedIndexStore
Memory_commit(aggregate_id, keyword) ==
    [IndexUnchanged("Ok") EXCEPT
         !.indexes = [k \in DOMAIN indexes \cup {keyword} |->
                         IF k = keyword
                         THEN Memory_get_aggregate_ids(k) \cup {aggregate_id}
                         ELSE indexes[k]]]

\* impl InvertedIndexRemover for MemoryInvertedIndexStore
Memory_remove(aggregate_id, keyword) ==
    IF keyword \in DOMAIN indexes
    THEN LET set == indexes[keyword] \ {aggregate_id}
         IN  [IndexUnchanged("Ok") EXCEPT
                  !.indexes = IF set = {}
                              THEN [k \in DOMAIN indexes \ {keyword} |-> indexes[k]]
                              ELSE [indexes EXCEPT ![keyword] = set]]
    ELSE IndexUnchanged("Ok")

get_aggregate_ids(keyword) ==
    IF backend = "DynamoDB"
    THEN DynamoDB_get_aggregate_ids(keyword)
    ELSE Memory_get_aggregate_ids(keyword)

commit(aggregate_id, keyword) ==
    IF backend = "DynamoDB"
    THEN DynamoDB_commit(aggregate_id, keyword)
    ELSE Memory_commit(aggregate_id, keyword)

remove(aggregate_id, keyword) ==
    IF backend = "DynamoDB"
    THEN DynamoDB_remove(aggregate_id, keyword)
    ELSE Memory_remove(aggregate_id, keyword)

\* a client calls commit(aggregate_id, keyword)
CallIndexCommit ==
    /\ \E aggregate_id \in AggregateIds, keyword \in Keywords :
         LET r == commit(aggregate_id, keyword)
         IN  /\ inverted_index' = r.inverted_index
             /\ indexes' = r.indexes
             /\ committed_pairs' = IF r.error = "Ok"
                                   THEN committed_pairs \cup {<<aggregate_id, keyword>>}
                                   ELSE committed_pairs
             /\ probe' = [op |-> "commit", aggregate_id |-> aggregate_id,
                          keyword |-> keyword, ret |-> r.error]
    /\ UNCHANGED <<dynVars, memVars, backend, snapshot_interval, callers, workers, calls,
                   extVars,
                   inverted_index_replica, routes, invoked>>

\* a client calls remove(aggregate_id, keyword)
CallIndexRemove ==
    /\ \E aggregate_id \in AggregateIds, keyword \in Keywords :
         LET r == remove(aggregate_id, keyword)
         IN  /\ inverted_index' = r.inverted_index
             /\ indexes' = r.indexes
             /\ committed_pairs' = IF r.error = "Ok"
                                   THEN committed_pairs \ {<<aggregate_id, keyword>>}
                                   ELSE committed_pairs
             /\ probe' = [op |-> "remove", aggregate_id |-> aggregate_id,
                          keyword |-> keyword, ret |-> r.error]
    /\ UNCHANGED <<dynVars, memVars, backend, snapshot_interval, callers, workers, calls,
                   extVars,
                   inverted_index_replica, routes, invoked>>

\* a client calls get_aggregate_ids(keyword)
CallGetAggregateIds ==
    /\ \E keyword \in Keywords :
         probe' = [op |-> "get_aggregate_ids", keyword |-> keyword, ret |-> "Ok",
                   ids |-> get_aggregate_ids(keyword)]
    /\ UNCHANGED <<dynVars, memVars, backend, snapshot_interval, callers, workers, calls,
                   extVars,
                   inverted_index, inverted_index_replica, indexes, committed_pairs,
                   routes, invoked>>

\* a write of the inverted-index table reaches the copy that Query reads
InvertedIndexReplicate ==
    /\ \E r \in (inverted_index \ inverted_index_replica)
                   \cup (inverted_index_replica \ inverted_index) :
         inverted_index_replica' = IF r \in inverted_index
                                   THEN inverted_index_replica \cup {r}
                                   ELSE inverted_index_replica \ {r}
    /\ UNCHANGED <<dynVars, memVars, backend, snapshot_interval, callers, workers, calls,
                   extVars,
                   inverted_index, indexes, committed_pairs, routes, invoked, probe>>

InitIndex ==
    /\ InitCommon
    /\ backend \in {"DynamoDB", "Memory"}
    /\ snapshot_interval = 1

NextIndex ==
    \/ CallIndexCommit
    \/ CallIndexRemove
    \/ CallGetAggregateIds
    \/ InvertedIndexReplicate

\* the inverted index of either store
SpecIndex == InitIndex /\ [][NextIndex]_vars

(***************************************************************************)
(* ProcessorBasedEventRouter                                               *)
(* (tsuzuri-dynamodb/src/integration/event_type_router.rs).  routes is the *)
(* set of registered keys, each key standing for the processor registered  *)
(* under it; invoked is the sequence of processor invocations [key,        *)
(* payload] made by the last process_bytes call.  A HashMap iterates in an *)
(* arbitrary order, so the prefix search may stop at any matching key:     *)
(* process_bytes is the set of the invocation sequences it can make.       *)
(***************************************************************************)
EventNames == {<<80>>, <<80, 65>>, <<80, 65, 66>>, <<81>>}

PayloadBytes == {<<1>>, <<2>>}

ProcessorResults == {"Ok", "Err"}

\* str::starts_with
starts_with(s, prefix) ==
    Len(prefix) <= Len(s) /\ SubSeq(s, 1, Len(prefix)) = prefix

\* the routing without the exact-match lookup
process_bytes_prefix_only(event_name, payload) ==
    LET matching == {registered_prefix \in routes :
                        starts_with(event_name, registered_prefix)}
    IN  IF matching = {}
        THEN {<<>>}
        ELSE {<<[key |-> registered_prefix, payload |-> payload]>> :
                 registered_prefix \in matching}

\* the routing with a fallback to any registered processor when nothing matches
process_bytes_with_fallback(event_name, payload) ==
    LET matching == {registered_prefix \in routes :
                        starts_with(event_name, registered_prefix)}
        candidates == IF event_name \in routes THEN {event_name}
                      ELSE IF matching # {} THEN matching
                      ELSE routes
    IN  IF candidates = {}
        THEN {<<>>}
        ELSE {<<[key |-> k, payload |-> payload]>> : k \in candidates}

\* the routing that goes on after the first matching prefix
process_bytes_every_prefix(event_name, payload) ==
    IF event_name \in routes
    THEN {<<[key |-> event_name, payload |-> payload]>>}
    ELSE LET matching == {registered_prefix \in routes :
                             starts_with(event_name, registered_prefix)}
             Shorter(k) == {j \in matching : Len(j) < Len(k)}
         IN  {[i \in 1..Cardinality(matching) |->
                  [key |-> CHOOSE k \in matching : Cardinality(Shorter(k)) = i - 1,
                   payload |-> payload]]}

\* ProcessorBasedEventRouter::process_bytes
process_bytes(event_name, payload) ==
    IF event_name \in routes
    THEN {<<[key |-> event_name, payload |-> payload]>>}
    ELSE LET matching == {registered_prefix \in routes :
                             starts_with(event_name, registered_prefix)}
         IN  IF matching = {}
             THEN {<<>>}
             ELSE {<<[key |-> registered_prefix, payload |-> payload]>> :
                      registered_prefix \in matching}

\* the payloads the processors' codec decodes; it fails on every other
Decodable == {<<1>>}

\* Serde::deserialize of the processor's event_serde
event_serde_deserialize(payload) ==
    IF payload \in Decodable
    THEN [error |-> "Ok", value |-> [id |-> Len(payload), data |-> payload]]
    ELSE [error |-> "SerdeError"]

\* From<SerdeError> for IntegrationError
FromSerdeError(error) ==
    CASE error = "SerdeError" -> "Serialization"

\* Processor::to_integration_event
to_integration_event(payload) ==
    LET event == event_serde_deserialize(payload)
    IN  IF event.error = "Ok"
        THEN [error |-> "Ok", envelope |-> [message |-> event.value]]
        ELSE [error |-> FromSerdeError(event.error)]

\* the processing that hands the raw payload to the adapter when decoding fails
Processor_process_bytes_unchecked(payload, adapter_result) ==
    LET event == to_integration_event(payload)
    IN  IF event.error = "Ok"
        THEN [ret |-> adapter_result, executed |-> <<event.envelope>>]
        ELSE [ret |-> event.error,
              executed |-> <<[message |-> [id |-> Len(payload), data |-> payload]]>>]

\* Processor::process_bytes; the adapter's execute returns adapter_result
Processor_process_bytes(payload, adapter_result) ==
    LET event == to_integration_event(payload)
    IN  IF event.error = "Ok"
        THEN [ret |-> adapter_result, executed |-> <<event.envelope>>]
        ELSE [ret |-> event.error, executed |-> <<>>]

\* ProcessorBasedEventRouter::route_processor
RouteProcessor ==
    /\ \E event_prefix \in EventNames : routes' = routes \cup {event_prefix}
    /\ UNCHANGED <<dynVars, memVars, backend, snapshot_interval, callers, workers, calls,
                   extVars,
                   inverted_index, inverted_index_replica, indexes, committed_pairs,
                   invoked, probe>>

\* a call of process_bytes; an invoked processor returns result
ProcessBytes ==
    /\ \E event_name \in EventNames, payload \in PayloadBytes,
          result \in ProcessorResults :
         \E invocations \in process_bytes(event_name, payload) :
            LET r == IF invocations = <<>>
                     THEN [ret |-> "Ok", executed |-> <<>>]
                     ELSE Processor_process_bytes(invocations[1].payload, result)
            IN  /\ invoked' = invocations
                /\ executed' = r.executed
                /\ probe' = [op |-> "process_bytes", event_name |-> event_name,
                             payload |-> payload, ret |-> r.ret]
    /\ UNCHANGED <<dynVars, memVars, backend, snapshot_interval, callers, workers, calls,
                   loader,
                   inverted_index, inverted_index_replica, indexes, committed_pairs,
                   routes>>

InitRouter ==
    /\ InitCommon
    /\ backend = "DynamoDB"
    /\ snapshot_interval = 1

NextRouter ==
    \/ RouteProcessor
    \/ ProcessBytes

SpecRouter == InitRouter /\ [][NextRouter]_vars

(***************************************************************************)
(* Persists of large batches against the DynamoDB store: the number of     *)
(* items of the transaction against the limit of commit_transactions.      *)
(***************************************************************************)
BatchSizes == {0, 1, 12, TransactionLimit - 1, TransactionLimit, MaxBatch}

\* n domain events of aggregate a with seq_nr 1..n, issued by call c
EventBatch(a, n, c) == [i \in 1..n |-> DomainEvent(a, i, c)]

\* m integration events of aggregate a, issued by call c
IntegrationEventBatch(a, m, c) ==
    [i \in 1..m |-> [id |-> <<c, i>>, aggregate_id |-> a, payload |-> c]]

\* a client calls persist with n domain events, m integration events and,
\* if with_snapshot, a snapshot
PersistBatch ==
    /\ calls < MaxCalls
    /\ \E a \in AggregateIds, n \in BatchSizes, m \in BatchSizes,
          with_snapshot \in BOOLEAN :
         LET domain_events == EventBatch(a, n, calls + 1)
             snapshot_update ==
                 IF with_snapshot
                 THEN Some([aggregate_id |-> a, aggregate |-> calls + 1,
                            seq_nr |-> LastSeqNr(domain_events), version |-> 1])
                 ELSE None
             r == persist(domain_events, IntegrationEventBatch(a, m, calls + 1),
                          snapshot_update)
         IN  /\ StoreBecomes(r)
             /\ probe' = [op |-> "persist", aggregate_id |-> a, domain_events |-> n,
                          integration_events |-> m, snapshot |-> with_snapshot,
                          ret |-> r.error]
    /\ calls' = calls + 1
    /\ UNCHANGED <<journal_aid_index, backend, snapshot_interval, callers, workers,
                   extVars, inverted_index, inverted_index_replica, indexes,
                   committed_pairs, routes, invoked>>

InitLimit ==
    /\ InitCommon
    /\ backend = "DynamoDB"
    /\ snapshot_interval = 1

NextLimit == PersistBatch

SpecLimit == InitLimit /\ [][NextLimit]_vars

(***************************************************************************)
(* Failures of the DynamoDB calls themselves: the SdkError variants other  *)
(* than a transaction cancelled by a failed condition.  A request that     *)
(* timed out or whose response was lost may have been applied.             *)
(***************************************************************************)
SdkFailures ==
    {"ConstructionFailure", "TimeoutError", "DispatchFailure", "ResponseError",
     "ServiceError"}

\* fn unknown_error
unknown_error(error) == "UnknownError"

\* From<SdkError<QueryError>> for DynamoAggregateError
FromQueryError(error) == unknown_error(error)

\* a persist of one event whose TransactWriteItems call fails with sdk_error
PersistFault ==
    /\ calls < MaxCalls
    /\ \E a \in AggregateIds, sdk_error \in SdkFailures, applied \in BOOLEAN :
         /\ applied => sdk_error \in {"TimeoutError", "ResponseError"}
         /\ LET sent == persist(EventBatch(a, 1, calls + 1), <<>>, None)
            IN  StoreBecomes(IF applied THEN sent ELSE Unchanged(sdk_error))
         /\ probe' = [op |-> "persist", aggregate_id |-> a, domain_events |-> 1,
                      integration_events |-> 0, snapshot |-> FALSE,
                      sdk_error |-> sdk_error,
                      ret |-> ToPersistenceError(FromTransactWriteItemsError(sdk_error))]
    /\ calls' = calls + 1
    /\ UNCHANGED <<journal_aid_index, backend, snapshot_interval, callers, workers,
                   extVars, inverted_index, inverted_index_replica, indexes,
                   committed_pairs, routes, invoked>>

\* a get_snapshot whose Query call fails with sdk_error
GetSnapshotFault ==
    /\ \E a \in AggregateIds, sdk_error \in SdkFailures :
         probe' = [op |-> "get_snapshot", aggregate_id |-> a, sdk_error |-> sdk_error,
                   ret |-> ToPersistenceError(FromQueryError(sdk_error))]
    /\ UNCHANGED <<dynVars, memVars, backend, snapshot_interval, callers, workers, calls,
                   extVars,
                   inverted_index, inverted_index_replica, indexes, committed_pairs,
                   routes, invoked>>

NextFault ==
    \/ PersistBatch
    \/ PersistFault
    \/ GetSnapshotFault

\* the DynamoDB store with failing calls
SpecFault == InitLimit /\ [][NextFault]_vars

(***************************************************************************)
(* load_aggregate over a journal that holds items it cannot decode: an     *)
(* item written by another program either lacks the attribute event_id     *)
(* (serialized_event fails) or carries a payload that is no event of the   *)
(* aggregate (the event codec fails).  Results are [error, value].         *)
(***************************************************************************)
\* helper::serialized_event, as a Result
try_serialized_event(entry) ==
    IF {"event_id", "aid", "seq_nr", "payload"} \subseteq DOMAIN entry
    THEN [error |-> "Ok", value |-> serialized_event(entry)]
    ELSE [error |-> "MissingAttribute"]

\* DynamoDB::stream_events: an item is the event or the error of its decoding
DynamoDB_try_stream_events(id, select) ==
    LET items == get_stream(id, IF select = None THEN 1 ELSE select[1])
    IN  [i \in 1..Len(items) |->
            LET item == try_serialized_event(items[i])
            IN  [item EXCEPT !.error = ToPersistenceError(item.error)]]

\* Serde::deserialize of domain_event_serde, as a Result
try_deserialize(bytes) ==
    IF bytes.json \in DomainEvents
    THEN [error |-> "Ok", value |-> bytes.json]
    ELSE [error |-> "SerdeError"]

\* From<serde::SerdeError> for PersistenceError
SerdeErrorToPersistenceError(error) ==
    CASE error = "SerdeError" -> "DeserializationError"

RECURSIVE try_fold_results(_, _)
\* the fold of load_aggregate over a stream of Results: it ends at the first error
try_fold_results(versioned_aggregate, persisted) ==
    IF persisted = <<>> THEN [error |-> "Ok", value |-> versioned_aggregate]
    ELSE IF Head(persisted).error # "Ok" THEN [error |-> Head(persisted).error]
    ELSE LET event == try_deserialize(Head(persisted).value.payload)
         IN  IF event.error # "Ok"
             THEN [error |-> SerdeErrorToPersistenceError(event.error)]
             ELSE try_fold_results(
                      [versioned_aggregate EXCEPT
                           !.seq_nr = Head(persisted).value.seq_nr,
                           !.aggregate = T_apply(@, event.value)],
                      Tail(persisted))

\* EventSourced::load_aggregate over the DynamoDB store, as a Result; the
\* journal of this specification has no snapshot rows
load_aggregate(id) ==
    LET versioned_aggregate == [id |-> id, aggregate |-> T_init(id),
                                version |-> 0, seq_nr |-> 0]
        ctx == try_fold_results(versioned_aggregate,
                                DynamoDB_try_stream_events(id, Some(0)))
    IN  IF ctx.error = "Ok" THEN ctx
        ELSE [error |-> "UnknownError"]

\* the seq_nr after the last journal row of the aggregate
NextSeqNr(a) ==
    LET rows == {r.seq_nr : r \in {x \in journal : x.aid = a}}
    IN  IF rows = {} THEN 1 ELSE (CHOOSE n \in rows : \A m \in rows : m <= n) + 1

\* a client commits the next event of an aggregate
AppendEvent ==
    /\ calls < MaxCommits
    /\ \E a \in AggregateIds :
         LET event == [id |-> <<calls + 1>>, aggregate_id |-> a,
                       seq_nr |-> NextSeqNr(a), payload |-> serialize(calls + 1)]
         IN  StoreBecomes(persist(<<event>>, <<>>, None))
    /\ calls' = calls + 1
    /\ UNCHANGED <<journal_aid_index, backend, snapshot_interval, auxVars, callers,
                   workers>>

\* another program writes a journal item that tsuzuri cannot decode
ForeignWrite ==
    /\ calls < MaxCommits
    /\ \E a \in AggregateIds, damage \in {"no event_id", "payload"} :
         LET put == JournalPut([id |-> <<calls + 1>>, aggregate_id |-> a,
                                seq_nr |-> NextSeqNr(a), payload |-> serialize(0)]).item
             item == IF damage = "payload" THEN put
                     ELSE [f \in DOMAIN put \ {"event_id"} |-> put[f]]
         IN  journal' = journal \cup {item}
    /\ calls' = calls + 1
    /\ UNCHANGED <<journal_aid_index, snapshot, outbox, memVars, backend,
                   snapshot_interval, auxVars, callers, workers>>

\* a client calls load_aggregate(id)
CallLoadAggregate ==
    /\ \E id \in AggregateIds :
         LET r == load_aggregate(id)
         IN  probe' = [op |-> "load_aggregate", id |-> id, ret |-> r.error,
                       aggregate |-> IF r.error = "Ok" THEN Some(r.value) ELSE None]
    /\ UNCHANGED <<dynVars, memVars, backend, snapshot_interval, callers, workers, calls,
                   extVars,
                   inverted_index, inverted_index_replica, indexes, committed_pairs,
                   routes, invoked>>

InitCorrupt ==
    /\ InitCommon
    /\ backend = "DynamoDB"
    /\ snapshot_interval = 1

NextCorrupt ==
    \/ AppendEvent
    \/ ForeignWrite
    \/ IndexPropagate
    \/ CallLoadAggregate

SpecCorrupt == InitCorrupt /\ [][NextCorrupt]_vars

(***************************************************************************)
(* EventSourced::load_aggregates.  loader is the call under way: the ids   *)
(* of the keyword not yet taken from stream::iter (pending), the loads     *)
(* that buffer_unordered holds (in_flight) and the aggregates collected.   *)
(* The ids of the index are any strings: canonical strings of aggregate    *)
(* ids (AggregateIds), "!" (no id) and the empty string.                   *)
(***************************************************************************)
IndexedIds == AggregateIds \cup {<<33>>, <<>>}

\* FromStr for the aggregate id; AggregateIds are the strings of the valid ids
from_str(s) ==
    IF s = <<>> THEN [error |-> "Empty"]
    ELSE IF s \in AggregateIds THEN [error |-> "Ok", value |-> s]
    ELSE [error |-> "Invalid"]

\* the async block of load_aggregates without the parse of the id
load_one_unparsed(id) ==
    LET r == load_aggregate(id)
    IN  IF r.error = "Ok" THEN Some(r.value) ELSE None

\* the async block of load_aggregates for one id: Some(aggregate), or None (skip)
load_one(id) ==
    LET aggregate_id == from_str(id)
    IN  IF aggregate_id.error = "Ok"
        THEN LET r == load_aggregate(aggregate_id.value)
             IN  IF r.error = "Ok" THEN Some(r.value) ELSE None
        ELSE None

\* buffer_unordered without its bound
may_start_unbounded(in_flight, limit) == TRUE

\* buffer_unordered(limit): another future is taken while fewer than limit run
may_start(in_flight, limit) == Cardinality(in_flight) < limit

\* EventSourced::with_concurrent_limit
WithConcurrentLimit ==
    /\ loader.pc = "idle"
    /\ \E limit \in 0..MaxConcurrentLimit :
         loader' = [loader EXCEPT !.concurrent_limit = limit]
    /\ UNCHANGED <<dynVars, memVars, backend, snapshot_interval, callers, workers, calls,
                   executed,
                   inverted_index, inverted_index_replica, indexes, committed_pairs,
                   routes, invoked, probe>>

\* load_aggregates(keyword) is called: get_aggregate_ids, the early return
CallLoadAggregates ==
    /\ loader.pc \in {"idle", "done"}
    /\ \E keyword \in Keywords :
         LET aggregate_ids == get_aggregate_ids(keyword)
         IN  /\ loader' = [loader EXCEPT
                               !.pc = IF aggregate_ids = {} THEN "done" ELSE "loading",
                               !.keyword = keyword,
                               !.pending = aggregate_ids,
                               !.in_flight = {},
                               !.aggregates = <<>>]
             /\ probe' = IF aggregate_ids = {}
                         THEN [op |-> "load_aggregates", keyword |-> keyword,
                               ids |-> aggregate_ids, ret |-> "Ok",
                               aggregates |-> <<>>]
                         ELSE [op |-> "load_aggregates", keyword |-> keyword,
                               ids |-> aggregate_ids, ret |-> "none",
                               aggregates |-> <<>>]
    /\ UNCHANGED <<dynVars, memVars, backend, snapshot_interval, callers, workers, calls,
                   executed,
                   inverted_index, inverted_index_replica, indexes, committed_pairs,
                   routes, invoked>>

\* buffer_unordered takes the next id and starts its load
StartLoad ==
    /\ loader.pc = "loading"
    /\ may_start(loader.in_flight, loader.concurrent_limit)
    /\ \E id \in loader.pending :
         loader' = [loader EXCEPT !.pending = @ \ {id},
                                  !.in_flight = @ \cup {id}]
    /\ UNCHANGED <<dynVars, memVars, backend, snapshot_interval, callers, workers, calls,
                   executed,
                   inverted_index, inverted_index_replica, indexes, committed_pairs,
                   routes, invoked, probe>>

\* a load in flight completes; filter_map drops the skipped ones
FinishLoad ==
    /\ loader.pc = "loading"
    /\ \E id \in loader.in_flight :
         LET result == load_one(id)
         IN  loader' = [loader EXCEPT
                            !.in_flight = @ \ {id},
                            !.aggregates = IF result = None THEN @
                                           ELSE Append(@, result[1])]
    /\ UNCHANGED <<dynVars, memVars, backend, snapshot_interval, callers, workers, calls,
                   executed,
                   inverted_index, inverted_index_replica, indexes, committed_pairs,
                   routes, invoked, probe>>

\* collect() is complete: load_aggregates returns Ok(aggregates)
ReturnAggregates ==
    /\ loader.pc = "loading"
    /\ loader.pending = {}
    /\ loader.in_flight = {}
    /\ loader' = [loader EXCEPT !.pc = "done"]
    /\ probe' = [probe EXCEPT !.ret = "Ok", !.aggregates = loader.aggregates]
    /\ UNCHANGED <<dynVars, memVars, backend, snapshot_interval, callers, workers, calls,
                   executed,
                   inverted_index, inverted_index_replica, indexes, committed_pairs,
                   routes, invoked>>

\* the journal item of the only event of aggregate a, decodable or not
OnlyItem(a, decodable) ==
    JournalPut([id |-> a, aggregate_id |-> a, seq_nr |-> 1,
                payload |-> serialize(IF decodable THEN 1 ELSE 0)]).item

\* a store whose aggregates have no event, one event or one undecodable item,
\* and an index that holds any ids under the first keyword
InitLoader ==
    /\ \E content \in [AggregateIds -> {"none", "event", "undecodable"}] :
         journal = {OnlyItem(a, content[a] = "event") :
                       a \in {x \in AggregateIds : content[x] # "none"}}
    /\ journal_aid_index = journal
    /\ snapshot = {}
    /\ outbox = {}
    /\ events = [a \in AggregateIds |-> <<>>]
    /\ snapshots = [a \in AggregateIds |-> None]
    /\ integration_events = <<>>
    /\ backend = "DynamoDB"
    /\ snapshot_interval = 1
    /\ callers = [c \in Callers |-> IdleCaller]
    /\ workers = [w \in Callers |-> IdleWorker]
    /\ calls = 0
    /\ \E ids \in SUBSET IndexedIds :
         inverted_index = {InvertedIndexItem(id, <<75>>) : id \in ids}
    /\ inverted_index_replica = inverted_index
    /\ indexes = [keyword \in {} |-> {}]
    /\ committed_pairs = {<<r.skey, r.pkey>> : r \in inverted_index}
    /\ routes = {}
    /\ invoked = <<>>
    /\ probe = NoProbe
    /\ executed = <<>>
    /\ loader = NoLoader

NextLoader ==
    \/ WithConcurrentLimit
    \/ CallLoadAggregates
    \/ StartLoad
    \/ FinishLoad
    \/ ReturnAggregates

SpecLoader == InitLoader /\ [][NextLoader]_vars

(***************************************************************************)
(* Claims on the DynamoDB store (SpecDyn).                                 *)
(***************************************************************************)
Range(f) == {f[i] : i \in DOMAIN f}

PersistDone(c) == callers[c].pc = "done" /\ callers[c].op = "persist"

EventKeys(c) == {<<e.aggregate_id, e.seq_nr>> : e \in Range(callers[c].domain_events)}

\* the caller's persist transaction is executed in this step
Transacts(c) == callers[c].pc = "persist" /\ callers'[c].pc = "done"

TablesUnchanged ==
    /\ journal' = journal /\ outbox' = outbox /\ snapshot' = snapshot
    /\ events' = events /\ snapshots' = snapshots
    /\ integration_events' = integration_events

\* two persist calls that began when none of their events had a journal row
\* and that carry an event of the same (aggregate_id, seq_nr)
RacingPersists(c, d) ==
    /\ c # d
    /\ PersistDone(c) /\ PersistDone(d)
    /\ callers[c].fresh /\ callers[d].fresh
    /\ EventKeys(c) \cap EventKeys(d) # {}

\* C1: of two concurrent persist calls carrying the same (aggregate_id, seq_nr),
\* exactly one returns Ok and the other returns OptimisticLockError, whichever
\* transaction DynamoDB executes first.
C1_ExactlyOneCommitWins ==
    \A c, d \in Callers :
        RacingPersists(c, d) =>
            \/ callers[c].result = "Ok" /\ callers[d].result = "OptimisticLockError"
            \/ callers[d].result = "Ok" /\ callers[c].result = "OptimisticLockError"

C1_Witness == \E c, d \in Callers : RacingPersists(c, d)

JournalRowWritten(e) ==
    \E r \in journal' : /\ r.aid = e.aggregate_id /\ r.seq_nr = e.seq_nr
                        /\ r.event_id = e.id /\ r.payload = e.payload

OutboxRowWritten(e) ==
    \E r \in outbox' : /\ r.skey = e.id /\ r.aid = e.aggregate_id
                       /\ r.payload = e.payload /\ r.status = "PENDING"

SnapshotRowWritten(s) ==
    \E r \in snapshot' : /\ r.aid = s.aggregate_id /\ r.version = s.version
                         /\ r.payload = s.aggregate

AllRowsWritten(c) ==
    /\ \A e \in Range(callers[c].domain_events) : JournalRowWritten(e)
    /\ \A e \in Range(callers[c].integration_events) : OutboxRowWritten(e)
    /\ \A s \in Range(callers[c].snapshot_update) : SnapshotRowWritten(s)

\* C3: persist is all-or-nothing: after its transaction either every journal
\* row, every outbox row and the snapshot row of the call exist, or the three
\* tables are as they were; a call that returns an error changed nothing.
C3_PersistAllOrNothing ==
    [][\A c \in Callers :
          Transacts(c) =>
              /\ AllRowsWritten(c) \/ TablesUnchanged
              /\ callers'[c].result # "Ok" => TablesUnchanged]_vars

\* a persist of several items has failed (and, by C3, written none of them)
C3_Witness ==
    \E c \in Callers :
        /\ PersistDone(c)
        /\ callers[c].result = "OptimisticLockError"
        /\ callers[c].integration_events # <<>>
        /\ callers[c].snapshot_update # None

\* C6: a persist of an event whose (aggregate_id, seq_nr) already has a journal
\* row returns OptimisticLockError and changes no table; no step ever removes or
\* changes a journal row.
C6_CommittedEventsImmutable ==
    [][/\ \A c \in Callers :
            (Transacts(c) /\ \E k \in EventKeys(c) : EventStored(k[1], k[2])) =>
                callers'[c].result = "OptimisticLockError" /\ TablesUnchanged
       /\ journal \subseteq journal']_vars

C6_Witness ==
    \E c \in Callers :
        /\ PersistDone(c)
        /\ callers[c].domain_events # <<>>
        /\ ~callers[c].fresh
        /\ callers[c].result = "OptimisticLockError"

SnapshotRowsOf(id) == {r \in snapshot : r.aid = id}

\* the snapshot table holds rows of aggregate id, and of no other aggregate
OnlySnapshotsOf(id) == SnapshotRowsOf(id) # {} /\ SnapshotRowsOf(id) = snapshot

\* C8: get_snapshot(id) returns the snapshot of id with the greatest version and
\* seq_nr (stated for a store that holds snapshots of id alone, one of them
\* greatest in both).
C8_GetSnapshotReturnsLatest ==
    [][\A c \in Callers :
          ( /\ callers'[c] # callers[c]
            /\ callers'[c].op = "get_snapshot"
            /\ OnlySnapshotsOf(callers'[c].id)
            /\ \E m \in snapshot : \A r \in snapshot :
                   r.version <= m.version /\ r.seq_nr <= m.seq_nr ) =>
              /\ callers'[c].got # None
              /\ \A r \in snapshot :
                     /\ r.version <= callers'[c].got[1].version
                     /\ r.seq_nr <= callers'[c].got[1].seq_nr]_vars

\* C9: a persist carrying a snapshot of version v returns Ok only if no snapshot
\* is stored for the aggregate or the greatest stored version is v - 1.
C9_SnapshotVersionCas ==
    [][\A c \in Callers :
          ( /\ Transacts(c)
            /\ callers[c].snapshot_update # None
            /\ callers'[c].result = "Ok" ) =>
              LET s == callers[c].snapshot_update[1]
                  stored == SnapshotRowsOf(s.aggregate_id)
              IN  \/ stored = {}
                  \/ \E m \in stored :
                        /\ \A r \in stored : r.version <= m.version
                        /\ m.version = s.version - 1]_vars

\* C7: on the in-memory store, a persist of a domain event whose
\* (aggregate_id, seq_nr) is already stored returns OptimisticLockError and
\* stores nothing.
C7_MemoryPersistRejectsDuplicate ==
    [][\A c \in Callers :
          (Transacts(c) /\ \E k \in EventKeys(c) : EventStored(k[1], k[2])) =>
              callers'[c].result = "OptimisticLockError" /\ TablesUnchanged]_vars

(***************************************************************************)
(* Claims on the repository (SpecMemES, SpecDynES).                        *)
(***************************************************************************)
\* the worker's load_aggregate returns in this step
Loads(w) == workers[w].pc = "replay" /\ workers'[w].pc = "loaded"

Payloads(persisted) == [i \in 1..Len(persisted) |-> deserialize(persisted[i].payload)]

\* no other worker has ever acted: the commits so far were made one at a time
Alone(w) == \A v \in Callers \ {w} : workers[v].pc = "idle"

\* C2: after commits made one at a time through the repository, for any snapshot
\* interval, load_aggregate(id) returns init(id) with the stored events of id
\* applied in order, each exactly once.
C2_LoadEqualsReplayOfAllEvents ==
    [][\A w \in Callers :
          (Loads(w) /\ Alone(w)) =>
              workers'[w].aggregate =
                  [id |-> workers[w].id,
                   applied |-> Payloads(StoredEvents(workers[w].id))]]_vars

\* C4: a load that starts from a snapshot applies to the snapshot's state exactly
\* the stored events whose seq_nr is greater than the snapshot's seq_nr.
C4_LoadAppliesOnlyEventsAfterSnapshot ==
    [][\A w \in Callers :
          (Loads(w) /\ workers[w].snapshot # None) =>
              LET snap == workers[w].snapshot[1]
              IN  workers'[w].aggregate.applied =
                      deserialize(snap.aggregate).applied
                          \o Payloads(SelectSeq(StoredEvents(workers[w].id),
                                                LAMBDA e : e.seq_nr > snap.seq_nr))]_vars

JournalSeqNrs(a) == {r.seq_nr : r \in {q \in journal : q.aid = a}}

\* C5: under any interleaving of loads and commits, the seq_nrs of the journal
\* rows of each aggregate are exactly 1..n, without a gap.
C5_JournalSeqNrsGapFree ==
    \A a \in AggregateIds : JournalSeqNrs(a) = 1..Cardinality(JournalSeqNrs(a))

\* C10: a worker whose commit failed with OptimisticLockError at seq_nr k and
\* that reloads the aggregate observes the winner's event: it is loaded at a
\* seq_nr of at least k.
C10_ReloadObservesWinner ==
    \A w \in Callers :
        (workers[w].pc = "loaded" /\ workers[w].failed_seq_nr > 0) =>
            workers[w].seq_nr >= workers[w].failed_seq_nr

\* C11: once a worker's commits have returned Ok, its next load_aggregate of the
\* aggregate includes every event it committed (stated for a worker that is
\* the only one to have acted, so that every journal row is a commit of its own).
C11_LoadIncludesOwnCommits ==
    [][\A w \in Callers :
          (Loads(w) /\ Alone(w)) =>
              \A e \in Range(StoredEvents(workers[w].id)) :
                  deserialize(e.payload) \in Range(workers'[w].aggregate.applied)]_vars

\* the seq_nr arguments of stream_events that are looked at
StreamFrom == 0..(MaxCommits + 1)

\* result is exactly the stored events of id with seq_nr >= n, ascending
IsStreamOf(result, id, n) ==
    /\ Range(result) = {e \in Range(StoredEvents(id)) : e.seq_nr >= n}
    /\ Len(result) = Len(SelectSeq(StoredEvents(id), LAMBDA e : e.seq_nr >= n))
    /\ \A i, j \in 1..Len(result) : i < j => result[i].seq_nr <= result[j].seq_nr

\* C12: stream_events(id, From(n)) yields exactly the stored events of id with
\* seq_nr >= n in ascending seq_nr order, and stream_events(id, All) all of them.
C12_StreamYieldsStoredEvents ==
    \A id \in AggregateIds :
        /\ IsStreamOf(stream_events(id, None), id, 0)
        /\ \A n \in StreamFrom : IsStreamOf(stream_events(id, Some(n)), id, n)

\* C13: the snapshot that get_snapshot(id) returns carries init(id) with exactly
\* the stored events of seq_nr 1..snapshot.seq_nr applied.
C13_SnapshotReflectsPrefix ==
    \A id \in AggregateIds :
        LET got == get_snapshot(id)
        IN  got # None =>
                deserialize(got[1].aggregate) =
                    [id |-> id,
                     applied |-> Payloads(SelectSeq(StoredEvents(id),
                                     LAMBDA e : e.seq_nr <= got[1].seq_nr))]

\* the worker's commit returns Ok in this step
CommitsOk(w) ==
    /\ workers[w].pc = "loaded"
    /\ workers'[w].pc = "done"
    /\ workers'[w].result = "Ok"

\* C14: get_snapshot after a successful persist that carried a snapshot returns
\* the aggregate bytes, seq_nr and version of the snapshot that was passed.
C14_GetSnapshotReturnsPersisted ==
    [][\A w \in Callers :
          (CommitsOk(w) /\ prepare_snapshot_if_needed(workers[w]) # None) =>
              \A a \in AggregateIds :
                  a = prepare_snapshot_if_needed(workers[w])[1].aggregate_id =>
                      LET passed == prepare_snapshot_if_needed(workers[w])[1]
                      IN  /\ get_snapshot(a)' # None
                          /\ get_snapshot(a)'[1].aggregate = passed.aggregate
                          /\ get_snapshot(a)'[1].seq_nr = passed.seq_nr
                          /\ get_snapshot(a)'[1].version = passed.version]_vars

(***************************************************************************)
(* Claims on the snapshot-interval rule (SpecInterval).                    *)
(***************************************************************************)
\* the last call was commit_snapshot_with_addl_events(s, n) on a store of W = 10
IntervalCall(s, n) ==
    /\ snapshot_interval = 10
    /\ probe.op = "commit_snapshot_with_addl_events"
    /\ probe.current_sequence = s
    /\ probe.num_events = n

\* C15 as stated: with W = 10 the rule returns 0 for (0,5), 10 for (0,10),
\* 5 for (5,5), 10 for (8,12) and 10 for (10,10).
C15_IntervalExamplesAsStated ==
    /\ IntervalCall(0, 5) => probe.ret = 0
    /\ IntervalCall(0, 10) => probe.ret = 10
    /\ IntervalCall(5, 5) => probe.ret = 5
    /\ IntervalCall(8, 12) => probe.ret = 10
    /\ IntervalCall(10, 10) => probe.ret = 10

\* C15, amended: with W = 10 the rule returns 0 for (0,5), 10 for (0,10),
\* 5 for (5,5), 12 for (8,12) and 10 for (10,10).
C15_IntervalExamples ==
    /\ IntervalCall(0, 5) => probe.ret = 0
    /\ IntervalCall(0, 10) => probe.ret = 10
    /\ IntervalCall(5, 5) => probe.ret = 5
    /\ IntervalCall(8, 12) => probe.ret = 12
    /\ IntervalCall(10, 10) => probe.ret = 10

C15_Witness == IntervalCall(8, 12)

\* C16: a successful commit of a domain event that derives k integration events
\* adds exactly one journal row and exactly k outbox rows, each with status
\* PENDING and attempts 0; with k = 0 no outbox row is added.
C16_CommitAddsJournalAndOutboxRows ==
    [][\A w \in Callers :
          CommitsOk(w) =>
              LET k == Len(into_integration_events(calls + 1))
              IN  /\ journal \subseteq journal'
                  /\ Cardinality(journal' \ journal) = 1
                  /\ outbox \subseteq outbox'
                  /\ Cardinality(outbox' \ outbox) = k
                  /\ \A r \in outbox' \ outbox :
                         r.status = "PENDING" /\ r.attempts = 0]_vars

\* commits with k = 1 and with k = 0 have both succeeded
C16_Witness ==
    /\ outbox # {}
    /\ Cardinality(journal) > Cardinality(outbox)
    /\ \E w \in Callers : workers[w].pc = "done" /\ workers[w].result = "Ok"

(***************************************************************************)
(* Claims on the inverted index (SpecIndex).                               *)
(***************************************************************************)
\* the pairs (aggregate_id, keyword) the index holds
IndexPairs ==
    IF backend = "DynamoDB"
    THEN {<<r.skey, r.pkey>> : r \in inverted_index}
    ELSE {pair \in AggregateIds \X Keywords :
             pair[2] \in DOMAIN indexes /\ pair[1] \in indexes[pair[2]]}

\* the call op(a, k) returns in this step
IndexCallReturns(op, a, k) ==
    /\ probe' # probe
    /\ probe'.op = op
    /\ probe'.aggregate_id = a
    /\ probe'.keyword = k

\* C17: get_aggregate_ids(k) returns exactly the aggregate ids whose commit
\* under k succeeded with no later remove; an unseen keyword yields the empty
\* list and no error.
C17_GetAggregateIdsReturnsCommitted ==
    probe.op = "get_aggregate_ids" =>
        /\ probe.ret = "Ok"
        /\ probe.ids = {a \in AggregateIds : <<a, probe.keyword>> \in committed_pairs}

\* C18: commit of a pair that the index already holds returns
\* OptimisticLockError and leaves the index with that one entry.
C18_DuplicateCommitRejected ==
    [][\A a \in AggregateIds, k \in Keywords :
          (<<a, k>> \in IndexPairs /\ IndexCallReturns("commit", a, k))
          => /\ probe'.ret = "OptimisticLockError"
             /\ IndexPairs' = IndexPairs]_vars

\* C19: remove of a pair that the index does not hold returns Ok and leaves
\* the index unchanged.
C19_RemoveAbsentIsOk ==
    [][\A a \in AggregateIds, k \in Keywords :
          (<<a, k>> \notin IndexPairs /\ IndexCallReturns("remove", a, k))
          => /\ probe'.ret = "Ok"
             /\ inverted_index' = inverted_index
             /\ indexes' = indexes]_vars

\* an absent pair was removed while the keyword holds another aggregate id
C19_Witness ==
    /\ probe.op = "remove"
    /\ probe.ret = "Ok"
    /\ <<probe.aggregate_id, probe.keyword>> \notin committed_pairs
    /\ \E a \in AggregateIds : <<a, probe.keyword>> \in IndexPairs

(***************************************************************************)
(* Claims on the router (SpecRouter).                                      *)
(***************************************************************************)
\* process_bytes(event_name, ..) returns in this step
ProcessBytesReturns(event_name) ==
    /\ <<probe, invoked>>' # <<probe, invoked>>
    /\ probe'.op = "process_bytes"
    /\ probe'.event_name = event_name

\* C20: when the event type equals a registered key, process_bytes invokes
\* that key's processor, once, and no other, even if other registered keys
\* are prefixes of the event type.
C20_ExactMatchOnly ==
    [][\A event_name \in EventNames :
          (event_name \in routes /\ ProcessBytesReturns(event_name)) =>
              invoked' = <<[key |-> event_name, payload |-> probe'.payload]>>]_vars

\* an exact match was served while a proper prefix of it was registered too
C20_Witness ==
    /\ probe.op = "process_bytes"
    /\ probe.event_name \in routes
    /\ \E k \in routes : k # probe.event_name /\ starts_with(probe.event_name, k)
    /\ Len(invoked) = 1
    /\ invoked[1].key = probe.event_name

\* the registered keys that are prefixes of event_name
MatchingPrefixes(event_name) == {k \in routes : starts_with(event_name, k)}

\* C21: when no registered key equals the event type and none is a prefix of
\* it, process_bytes returns Ok and invokes no processor.
C21_NoMatchIsOk ==
    [][\A event_name \in EventNames :
          (/\ event_name \notin routes
           /\ MatchingPrefixes(event_name) = {}
           /\ ProcessBytesReturns(event_name))
          => invoked' = <<>> /\ probe'.ret = "Ok"]_vars

\* an event type was routed that matches none of the registered keys
C21_Witness ==
    /\ probe.op = "process_bytes"
    /\ routes # {}
    /\ probe.event_name \notin routes
    /\ MatchingPrefixes(probe.event_name) = {}
    /\ invoked = <<>>

\* C22: when no registered key equals the event type and some registered key
\* is a prefix of it, process_bytes invokes exactly one processor, once, whose
\* key is a prefix of the event type, with the payload it was given.
C22_PrefixMatchInvokesOne ==
    [][\A event_name \in EventNames :
          (/\ event_name \notin routes
           /\ MatchingPrefixes(event_name) # {}
           /\ ProcessBytesReturns(event_name))
          => /\ Len(invoked') = 1
             /\ invoked'[1].key \in MatchingPrefixes(event_name)
             /\ invoked'[1].payload = probe'.payload]_vars

\* an event type with two registered proper prefixes was routed to one of them
C22_Witness ==
    /\ probe.op = "process_bytes"
    /\ probe.event_name \notin routes
    /\ Cardinality(MatchingPrefixes(probe.event_name)) = 2
    /\ Len(invoked) = 1
    /\ invoked[1].key \in MatchingPrefixes(probe.event_name)
    /\ invoked[1].payload = probe.payload

\* C23: Processor.process_bytes returns a Serialization error and does not
\* invoke the adapter when the codec fails on the payload; the adapter is
\* invoked, once, only after a successful deserialize.
C23_DeserializeFailureSkipsAdapter ==
    [][(/\ <<probe, invoked, executed>>' # <<probe, invoked, executed>>
        /\ probe'.op = "process_bytes"
        /\ invoked' # <<>>)
       => LET decoded == event_serde_deserialize(invoked'[1].payload)
          IN  /\ decoded.error # "Ok" =>
                     probe'.ret = "Serialization" /\ executed' = <<>>
              /\ decoded.error = "Ok" =>
                     executed' = <<[message |-> decoded.value]>>
              /\ executed' # <<>> => decoded.error = "Ok"]_vars

\* a processor was handed a payload its codec cannot decode
C23_Witness ==
    /\ probe.op = "process_bytes"
    /\ invoked # <<>>
    /\ invoked[1].payload \notin Decodable
    /\ probe.ret = "Serialization"
    /\ executed = <<>>

(***************************************************************************)
(* Claims on large persists (SpecLimit).                                   *)
(***************************************************************************)
\* the number of items the transaction of the persist call would hold
TransactionItems(call) ==
    call.domain_events + call.integration_events + (IF call.snapshot THEN 1 ELSE 0)

\* C24: a persist whose transaction would hold more than 25 items (journal
\* puts + outbox puts + snapshot put) returns an error and writes no item.
C24_OversizedPersistFails ==
    [][(/\ calls' = calls + 1
        /\ probe'.op = "persist"
        /\ TransactionItems(probe') > TransactionLimit)
       => probe'.ret # "Ok" /\ TablesUnchanged]_vars

(***************************************************************************)
(* Claims on failing DynamoDB calls (SpecFault).                           *)
(***************************************************************************)
\* C25: a transport/SDK failure of a DynamoDB call, other than a failed
\* conditional check, surfaces to the caller as ConnectionError.
C25_SdkFailureIsConnectionError ==
    "sdk_error" \in DOMAIN probe => probe.ret = "ConnectionError"

(***************************************************************************)
(* Claims on loads over undecodable items (SpecCorrupt).                   *)
(***************************************************************************)
\* the journal item cannot be decoded into an event of the aggregate
Undecodable(item) ==
    \/ try_serialized_event(item).error # "Ok"
    \/ try_deserialize(item.payload).error # "Ok"

\* load_aggregate(id) returns in this step
LoadAggregateReturns(id) ==
    /\ probe' # probe
    /\ probe'.op = "load_aggregate"
    /\ probe'.id = id

\* C26: a journal item that cannot be decoded makes load_aggregate fail with
\* DeserializationError: no aggregate is returned.
C26_UndecodableItemFailsLoad ==
    [][\A id \in AggregateIds :
          (/\ LoadAggregateReturns(id)
           /\ \E item \in journal_aid_index : item.aid = id /\ Undecodable(item))
          => /\ probe'.ret = "DeserializationError"
             /\ probe'.aggregate = None]_vars

(***************************************************************************)
(* Claims on load_aggregates (SpecLoader).                                 *)
(***************************************************************************)
\* the ids of the call that parse and whose aggregate loads
LoadableIds(ids) ==
    {id \in ids : from_str(id).error = "Ok" /\ load_aggregate(id).error = "Ok"}

\* C27: load_aggregates(keyword) returns Ok with exactly the aggregates whose
\* ids parse and load; an id that fails to parse or to load is skipped.
C27_LoadAggregatesSkipsFailures ==
    (probe.op = "load_aggregates" /\ loader.pc = "done") =>
        /\ probe.ret = "Ok"
        /\ Len(probe.aggregates) = Cardinality(LoadableIds(probe.ids))
        /\ Range(probe.aggregates) =
               {load_aggregate(id).value : id \in LoadableIds(probe.ids)}

\* a call returned whose ids held one that does not parse, one that does not
\* load and one that loads
C27_Witness ==
    /\ probe.op = "load_aggregates"
    /\ loader.pc = "done"
    /\ \E id \in probe.ids : from_str(id).error # "Ok"
    /\ \E id \in probe.ids : from_str(id).error = "Ok" /\ load_aggregate(id).error # "Ok"
    /\ Len(probe.aggregates) = 1

\* C28: during load_aggregates never more than concurrent_limit loads are in
\* flight.
C28_LoadsInFlightBounded ==
    Cardinality(loader.in_flight) <= loader.concurrent_limit

\* the limit is reached while ids are still waiting
C28_Witness ==
    /\ loader.pc = "loading"
    /\ Cardinality(loader.in_flight) = loader.concurrent_limit
    /\ loader.pending # {}


(***************************************************************************)
(* VersionedAggregate: an aggregate with its version and sequence number.  *)
(* One client holds one VersionedAggregate in its worker record and calls  *)
(* handle, apply and set_seq_nr on it in any order.  The command 0 is the  *)
(* one the aggregate rejects; the command n > 0 yields the event n.        *)
(***************************************************************************)
Commands == {0} \cup DomainEvents

\* AggregateRoot::handle of the aggregate: the event, or the aggregate's error
T_handle(aggregate, cmd) ==
    IF cmd = 0 THEN [error |-> "SomethingWentWrong", value |-> None]
    ELSE [error |-> "Ok", value |-> Some(cmd)]

\* VersionedAggregate::new
VersionedAggregate_new(aggregate, version, seq_nr) ==
    [aggregate |-> aggregate, version |-> version, seq_nr |-> seq_nr]

\* VersionedAggregate::set_seq_nr
VersionedAggregate_set_seq_nr(self, seq_nr) == [self EXCEPT !.seq_nr = seq_nr]

\* VersionedAggregate::handle: the object afterwards and the result
VersionedAggregate_handle(self, cmd) ==
    [self |-> self, ret |-> T_handle(self.aggregate, cmd)]

\* an apply that advances the sequence number itself
VersionedAggregate_apply_advancing(self, event) ==
    [self EXCEPT !.aggregate = T_apply(@, event), !.seq_nr = @ + 1]

\* VersionedAggregate::apply
VersionedAggregate_apply(self, event) ==
    [self EXCEPT !.aggregate = T_apply(@, event)]

\* the VersionedAggregate a worker holds
Held(w) ==
    [aggregate |-> workers[w].aggregate, version |-> workers[w].version,
     seq_nr |-> workers[w].seq_nr]

Hold(w, self) ==
    [workers EXCEPT ![w].pc = "loaded", ![w].aggregate = self.aggregate,
                    ![w].version = self.version, ![w].seq_nr = self.seq_nr]

VersionedUnchanged ==
    UNCHANGED <<dynVars, memVars, backend, snapshot_interval, callers, calls,
                inverted_index, inverted_index_replica, indexes, committed_pairs,
                routes, invoked, extVars>>

\* the client builds its VersionedAggregate
CallNew(w) ==
    /\ workers[w].pc = "idle"
    /\ \E id \in AggregateIds, version \in Versions, seq_nr \in {0} \cup SeqNrs :
         /\ workers' = [Hold(w, VersionedAggregate_new(T_init(id), version, seq_nr))
                           EXCEPT ![w].id = id]
         /\ probe' = [op |-> "new", version |-> version, seq_nr |-> seq_nr]
    /\ VersionedUnchanged

CallSetSeqNr(w) ==
    /\ workers[w].pc = "loaded"
    /\ \E seq_nr \in {0} \cup SeqNrs :
         /\ workers' = Hold(w, VersionedAggregate_set_seq_nr(Held(w), seq_nr))
         /\ probe' = [op |-> "set_seq_nr", seq_nr |-> seq_nr]
    /\ VersionedUnchanged

CallHandle(w) ==
    /\ workers[w].pc = "loaded"
    /\ \E cmd \in Commands :
         LET r == VersionedAggregate_handle(Held(w), cmd)
         IN  /\ workers' = Hold(w, r.self)
             /\ probe' = [op |-> "handle", cmd |-> cmd, ret |-> r.ret]
    /\ VersionedUnchanged

CallApply(w) ==
    /\ workers[w].pc = "loaded"
    /\ Len(workers[w].aggregate.applied) < MaxApplied
    /\ \E event \in DomainEvents :
         /\ workers' = Hold(w, VersionedAggregate_apply(Held(w), event))
         /\ probe' = [op |-> "apply", event |-> event]
    /\ VersionedUnchanged

InitVersioned ==
    /\ InitCommon
    /\ backend = "Memory"
    /\ snapshot_interval = 1

NextVersioned ==
    \/ CallNew(1)
    \/ CallSetSeqNr(1)
    \/ CallHandle(1)
    \/ CallApply(1)

SpecVersioned == InitVersioned /\ [][NextVersioned]_vars

\* C29: handle and apply leave version and seq_nr as they were, whether
\* handle returns an event or an error; once the object is built only
\* set_seq_nr changes seq_nr.
C29_HandleApplyKeepVersionAndSeqNr ==
    [][\A w \in Callers :
          /\ (probe'.op \in {"handle", "apply"}) =>
                 /\ workers'[w].version = workers[w].version
                 /\ workers'[w].seq_nr = workers[w].seq_nr
          /\ (workers[w].pc = "loaded" /\ workers'[w].seq_nr # workers[w].seq_nr) =>
                 probe'.op = "set_seq_nr"]_vars

\* handle has just returned an error on an object that had events applied
\* and its sequence number set
C29_Witness ==
    /\ probe.op = "handle"
    /\ probe.ret.error # "Ok"
    /\ workers[1].aggregate.applied # <<>>
    /\ workers[1].seq_nr \in SeqNrs


(***************************************************************************)
(* The stream processors: extraction of the binary "payload" attribute of  *)
(* a stream record.  An attribute is absent, a string (S) or binary (B);   *)
(* bytes are numbers, drawn from the letters Q U E, the padding sign, the  *)
(* braces of a JSON document, the two bytes of a two-byte UTF-8 letter and *)
(* a byte that no UTF-8 text holds.                                        *)
(***************************************************************************)
Octets == {81, 85, 69, 61, 123, 125, 195, 169, 255}

OctetStrings == UNION {[1..n -> Octets] : n \in 0..MaxPayloadLen}

Attributes ==
    {None, Some([type |-> "S", value |-> <<81>>])}
        \cup {Some([type |-> "B", value |-> value]) : value \in OctetStrings}

\* the alphabet of base64::engine::general_purpose::STANDARD
is_b64_symbol(b) ==
    \/ b \in 65..90
    \/ b \in 97..122
    \/ b \in 48..57
    \/ b \in {43, 47}

b64_value(b) ==
    IF b \in 65..90 THEN b - 65
    ELSE IF b \in 97..122 THEN b - 97 + 26
    ELSE IF b \in 48..57 THEN b - 48 + 52
    ELSE IF b = 43 THEN 62
    ELSE 63

\* the number of padding signs that end the input
b64_padding(bytes) ==
    IF Len(bytes) >= 2 /\ bytes[Len(bytes)] = 61 /\ bytes[Len(bytes) - 1] = 61 THEN 2
    ELSE IF Len(bytes) >= 1 /\ bytes[Len(bytes)] = 61 THEN 1
    ELSE 0

RECURSIVE b64_decode_symbols(_)
\* the bytes that a run of symbols (without padding) stands for
b64_decode_symbols(symbols) ==
    IF Len(symbols) >= 4
    THEN LET n == b64_value(symbols[1]) * 262144 + b64_value(symbols[2]) * 4096
                      + b64_value(symbols[3]) * 64 + b64_value(symbols[4])
         IN  <<n \div 65536, (n \div 256) % 256, n % 256>>
                 \o b64_decode_symbols(SubSeq(symbols, 5, Len(symbols)))
    ELSE IF Len(symbols) = 3
    THEN LET n == b64_value(symbols[1]) * 4096 + b64_value(symbols[2]) * 64
                      + b64_value(symbols[3])
         IN  <<n \div 1024, (n \div 4) % 256>>
    ELSE IF Len(symbols) = 2
    THEN <<(b64_value(symbols[1]) * 64 + b64_value(symbols[2])) \div 16>>
    ELSE <<>>

\* Engine::decode of STANDARD: canonical padding, no trailing bits
base64_decode(bytes) ==
    LET symbols == SubSeq(bytes, 1, Len(bytes) - b64_padding(bytes))
        last == symbols[Len(symbols)]
        wellformed ==
            /\ Len(bytes) % 4 = 0
            /\ \A i \in DOMAIN symbols : is_b64_symbol(symbols[i])
            /\ Len(symbols) % 4 # 1
            /\ (Len(symbols) % 4 = 2) => b64_value(last) % 16 = 0
            /\ (Len(symbols) % 4 = 3) => b64_value(last) % 4 = 0
    IN  IF wellformed THEN [error |-> "Ok", value |-> b64_decode_symbols(symbols)]
        ELSE [error |-> "DecodeError", value |-> <<>>]

RECURSIVE utf8_chars(_)
\* std::str::from_utf8 over one- and two-byte sequences: the code points, or
\* <<-1>> at the first byte that is not the start of one
utf8_chars(bytes) ==
    IF bytes = <<>> THEN <<>>
    ELSE IF bytes[1] < 128 THEN <<bytes[1]>> \o utf8_chars(Tail(bytes))
    ELSE IF bytes[1] \in 194..223 /\ Len(bytes) >= 2 /\ bytes[2] \in 128..191
    THEN <<(bytes[1] - 192) * 64 + (bytes[2] - 128)>> \o utf8_chars(Tail(Tail(bytes)))
    ELSE <<-1>>

from_utf8(bytes) ==
    LET chars == utf8_chars(bytes)
    IN  IF \E i \in DOMAIN chars : chars[i] = -1
        THEN [error |-> "Utf8Error", value |-> <<>>]
        ELSE [error |-> "Ok", value |-> chars]

\* char::is_alphanumeric over the code points below U+0100
is_alphanumeric(c) ==
    \/ c \in 48..57
    \/ c \in 65..90
    \/ c \in 97..122
    \/ c \in {170, 178, 179, 181, 185, 186, 188, 189, 190}
    \/ c \in (192..255) \ {215, 247}

InvalidData(value) == [error |-> "InvalidData", value |-> value]

\* integration::helpers::extract_binary_attribute
Integration_extract_binary_attribute(attribute) ==
    IF attribute = None THEN InvalidData(<<>>)
    ELSE IF attribute[1].type # "B" THEN InvalidData(<<>>)
    ELSE LET decoded == base64_decode(attribute[1].value)
         IN  IF decoded.error = "Ok" THEN decoded ELSE InvalidData(<<>>)

\* projection::helpers::extract_binary_attribute
Projection_extract_binary_attribute(attribute) ==
    IF attribute = None THEN InvalidData(<<>>)
    ELSE IF attribute[1].type # "B" THEN InvalidData(<<>>)
    ELSE LET value == attribute[1].value
             utf8_str == from_utf8(value)
             as_is == [error |-> "Ok", value |-> value]
         IN  IF utf8_str.error = "Ok"
             THEN IF /\ \A i \in DOMAIN utf8_str.value :
                           \/ is_alphanumeric(utf8_str.value[i])
                           \/ utf8_str.value[i] \in {43, 47, 61}
                     /\ utf8_str.value # <<>>
                  THEN LET decoded == base64_decode(value)
                       IN  IF decoded.error = "Ok" THEN decoded ELSE as_is
                  ELSE as_is
             ELSE as_is

StreamProcessors == {"integration", "projection"}

extract_binary_attribute(processor, attribute) ==
    IF processor = "integration" THEN Integration_extract_binary_attribute(attribute)
    ELSE Projection_extract_binary_attribute(attribute)

\* a stream processor extracts the payload of the record it received
CallExtractBinaryAttribute ==
    /\ probe.op = "record"
    /\ probe' = [op |-> "extract_binary_attribute", processor |-> probe.processor,
                 attribute |-> probe.attribute,
                 ret |-> extract_binary_attribute(probe.processor, probe.attribute)]
    /\ UNCHANGED <<dynVars, memVars, backend, snapshot_interval, callers, workers, calls,
                   inverted_index, inverted_index_replica, indexes, committed_pairs,
                   routes, invoked, extVars>>

\* a record with any payload attribute has reached one of the processors
InitExtract ==
    /\ journal = {}
    /\ journal_aid_index = {}
    /\ snapshot = {}
    /\ outbox = {}
    /\ events = [a \in AggregateIds |-> <<>>]
    /\ snapshots = [a \in AggregateIds |-> None]
    /\ integration_events = <<>>
    /\ backend = "DynamoDB"
    /\ snapshot_interval = 1
    /\ callers = [c \in Callers |-> IdleCaller]
    /\ workers = [w \in Callers |-> IdleWorker]
    /\ calls = 0
    /\ inverted_index = {}
    /\ inverted_index_replica = {}
    /\ indexes = [keyword \in {} |-> {}]
    /\ committed_pairs = {}
    /\ routes = {}
    /\ invoked = <<>>
    /\ \E processor \in StreamProcessors, attribute \in Attributes :
         probe = [op |-> "record", processor |-> processor, attribute |-> attribute]
    /\ executed = <<>>
    /\ loader = NoLoader

NextExtract == CallExtractBinaryAttribute

SpecExtract == InitExtract /\ [][NextExtract]_vars

\* the payload shapes of a binary attribute
ExtractedBinary ==
    /\ probe.op = "extract_binary_attribute"
    /\ probe.attribute # None
    /\ probe.attribute[1].type = "B"

IsBase64Text(value) ==
    /\ value # <<>>
    /\ from_utf8(value).error = "Ok"
    /\ base64_decode(value).error = "Ok"

\* C30: the extraction of a binary attribute never fails: base64 text is
\* decoded, any other UTF-8 text and any raw bytes are returned as they are.
C30_ExtractAcceptsThreeShapes ==
    ExtractedBinary =>
        LET value == probe.attribute[1].value
        IN  /\ probe.ret.error = "Ok"
            /\ probe.ret.value =
                   IF IsBase64Text(value) THEN base64_decode(value).value ELSE value

\* C30 for the projection processor alone
C30_ProjectionAcceptsThreeShapes ==
    (ExtractedBinary /\ probe.processor = "projection") =>
        LET value == probe.attribute[1].value
        IN  /\ probe.ret.error = "Ok"
            /\ probe.ret.value =
                   IF IsBase64Text(value) THEN base64_decode(value).value ELSE value


(***************************************************************************)
(* The construction of a store.  Before it is built there is no store      *)
(* (backend "none"); MemoryEventStore::new takes the interval, the         *)
(* DynamoDB builder takes it as an option and falls back to the default.   *)
(* The interval rule divides by the interval: with an interval of 0 its    *)
(* remainder operation panics.                                             *)
(***************************************************************************)
\* MemoryEventStore::new: the interval the store holds
MemoryEventStore_new(interval) == interval

\* DynamoDBConfigBuilder::build: the interval of the configuration
DynamoDBConfigBuilder_build(interval) ==
    IF interval = None THEN DefaultSnapshotInterval ELSE interval[1]

BuildUnchanged ==
    UNCHANGED <<dynVars, memVars, callers, workers, calls,
                inverted_index, inverted_index_replica, indexes, committed_pairs,
                routes, invoked, extVars>>

NewMemoryEventStore ==
    /\ backend = "none"
    /\ \E interval \in 0..MaxInterval :
         /\ backend' = "Memory"
         /\ snapshot_interval' = MemoryEventStore_new(interval)
         /\ probe' = [op |-> "new", snapshot_interval |-> Some(interval), ret |-> "Ok"]
    /\ BuildUnchanged

BuildDynamoDB ==
    /\ backend = "none"
    /\ \E interval \in {None} \cup {Some(i) : i \in 0..MaxInterval} :
         /\ backend' = "DynamoDB"
         /\ snapshot_interval' = DynamoDBConfigBuilder_build(interval)
         /\ probe' = [op |-> "build", snapshot_interval |-> interval, ret |-> "Ok"]
    /\ BuildUnchanged

\* the interval rule on the store that was built: its value, or the panic of
\* the remainder by zero
try_commit_snapshot_with_addl_events(current_sequence, num_events) ==
    IF snapshot_interval = 0 THEN [error |-> "panic", value |-> 0]
    ELSE [error |-> "Ok",
          value |-> commit_snapshot_with_addl_events(current_sequence, num_events)]

CallCommitSnapshotOfBuilt ==
    /\ backend # "none"
    /\ \E current_sequence \in 0..MaxSequence, num_events \in 0..MaxInterval :
         probe' = [op |-> "commit_snapshot_with_addl_events",
                   current_sequence |-> current_sequence,
                   num_events |-> num_events,
                   ret |-> try_commit_snapshot_with_addl_events(current_sequence,
                                                                num_events)]
    /\ UNCHANGED <<dynVars, memVars, backend, snapshot_interval, callers, workers,
                   calls, extVars, inverted_index, inverted_index_replica, indexes,
                   committed_pairs, routes, invoked>>

InitBuild ==
    /\ InitCommon
    /\ backend = "none"
    /\ snapshot_interval = DefaultSnapshotInterval

NextBuild ==
    \/ NewMemoryEventStore
    \/ BuildDynamoDB
    \/ CallCommitSnapshotOfBuilt

SpecBuild == InitBuild /\ [][NextBuild]_vars

\* C31: no store is built with a snapshot interval of 0, and the interval
\* rule is never evaluated with an interval of 0.
C31_ZeroIntervalRejected ==
    /\ (probe.op \in {"new", "build"} /\ probe.snapshot_interval = Some(0)) =>
           probe.ret # "Ok"
    /\ backend # "none" => snapshot_interval # 0
    /\ probe.op = "commit_snapshot_with_addl_events" => probe.ret.error = "Ok"


(***************************************************************************)
(* The reads under cancellation.  A worker loads (get_snapshot, then the   *)
(* replay of stream_events) and commits; its load can be dropped between   *)
(* the two reads.  A second client calls get_snapshot and stream_events    *)
(* of the store directly, and load_aggregates runs beside them and can be  *)
(* dropped while loads are in flight.  Dropping a future runs no code of   *)
(* the repository: what the call held is gone.                             *)
(***************************************************************************)
\* a cancel that also deletes the snapshot rows the load had read
CancelLoadDiscardingSnapshot(w) ==
    /\ workers[w].pc = "replay"
    /\ workers' = [workers EXCEPT ![w] = IdleWorker]
    /\ snapshot' = {r \in snapshot :
                       r.pkey # resolve_partition_key(workers[w].id, TYPE, ShardCount)}
    /\ UNCHANGED <<journal, journal_aid_index, outbox, memVars, backend,
                   snapshot_interval, auxVars, callers, calls>>

\* the future of load_aggregate is dropped after get_snapshot
CancelLoad(w) ==
    /\ workers[w].pc = "replay"
    /\ workers' = [workers EXCEPT ![w] = IdleWorker]
    /\ UNCHANGED <<dynVars, memVars, backend, snapshot_interval, auxVars, callers, calls>>

\* the future of load_aggregates is dropped while it is loading
CancelLoadAggregates ==
    /\ loader.pc = "loading"
    /\ loader' = [NoLoader EXCEPT !.concurrent_limit = loader.concurrent_limit]
    /\ probe' = [probe EXCEPT !.ret = "cancelled"]
    /\ UNCHANGED <<dynVars, memVars, backend, snapshot_interval, callers, workers, calls,
                   executed,
                   inverted_index, inverted_index_replica, indexes, committed_pairs,
                   routes, invoked>>

\* a client reads the stream of an aggregate from the store
CallStreamEvents(c) ==
    /\ callers[c].pc \in {"idle", "done"}
    /\ \E id \in AggregateIds :
         callers' = [callers EXCEPT ![c] =
             [IdleCaller EXCEPT !.pc = "done", !.op = "stream_events", !.id = id,
                                !.result = "Ok",
                                !.domain_events = stream_events(id, None)]]
    /\ UNCHANGED <<dynVars, memVars, backend, snapshot_interval, auxVars, workers, calls>>

\* the commits of the worker, MaxCalls of them
CommitOfRead(w) ==
    /\ calls < MaxCalls
    /\ Commit(w)

\* a store with an id that parses and one that does not under the first keyword
InitRead ==
    /\ journal = {}
    /\ journal_aid_index = {}
    /\ snapshot = {}
    /\ outbox = {}
    /\ events = [a \in AggregateIds |-> <<>>]
    /\ snapshots = [a \in AggregateIds |-> None]
    /\ integration_events = <<>>
    /\ backend = "DynamoDB"
    /\ snapshot_interval = 1
    /\ callers = [c \in Callers |-> IdleCaller]
    /\ workers = [w \in Callers |-> IdleWorker]
    /\ calls = 0
    /\ inverted_index = {InvertedIndexItem(id, <<75>>) : id \in {<<65>>, <<33>>}}
    /\ inverted_index_replica = inverted_index
    /\ indexes = [keyword \in {} |-> {}]
    /\ committed_pairs = {<<r.skey, r.pkey>> : r \in inverted_index}
    /\ routes = {}
    /\ invoked = <<>>
    /\ probe = NoProbe
    /\ executed = <<>>
    /\ loader = NoLoader

NextRead ==
    \/ LoadSnapshot(1)
    \/ ReplayEvents(1)
    \/ CancelLoad(1)
    \/ CommitOfRead(1)
    \/ IndexPropagate
    \/ CallGetSnapshot(2)
    \/ CallStreamEvents(2)
    \/ CallLoadAggregates
    \/ StartLoad
    \/ FinishLoad
    \/ ReturnAggregates
    \/ CancelLoadAggregates

SpecRead == InitRead /\ [][NextRead]_vars

\* a step of one of the reads: the load of the worker (begun, completed or
\* dropped), a read of the second client, a step of load_aggregates
ReadStep ==
    \/ workers' # workers /\ workers'[1].pc # "done"
    \/ callers' # callers
    \/ loader' # loader

\* C32: no step of load_aggregate, load_aggregates, stream_events or
\* get_snapshot, completed, failed or cancelled, changes the journal, the
\* outbox, the snapshots or the inverted index.
C32_ReadsNeverWrite ==
    [][ReadStep => UNCHANGED <<journal, outbox, snapshot, inverted_index,
                               events, snapshots, integration_events, indexes>>]_vars

\* a load was dropped after its get_snapshot over a store that holds events
\* and a snapshot, while load_aggregates had been dropped too
C32_Witness ==
    /\ workers[1].pc = "idle"
    /\ journal # {}
    /\ snapshot # {}
    /\ probe.op = "load_aggregates"
    /\ probe.ret = "cancelled"
    /\ callers[2].op = "stream_events"
    /\ callers[2].domain_events # <<>>


(***************************************************************************)
(* The repository over an in-memory store of any interval whose first      *)
(* aggregate already has events below the interval and no snapshot yet.    *)
(***************************************************************************)
StoredEvent(a, s) ==
    [id |-> <<0 - s>>, aggregate_id |-> a, seq_nr |-> s, payload |-> serialize(1)]

InitSnap ==
    /\ journal = {}
    /\ journal_aid_index = {}
    /\ snapshot = {}
    /\ outbox = {}
    /\ snapshot_interval \in 1..MaxSnapshotInterval
    /\ \E k \in 0..(snapshot_interval - 1) :
         events = [a \in AggregateIds |->
                      IF a = <<65>> THEN [s \in 1..k |-> StoredEvent(a, s)] ELSE <<>>]
    /\ snapshots = [a \in AggregateIds |-> None]
    /\ integration_events = <<>>
    /\ backend = "Memory"
    /\ callers = [c \in Callers |-> IdleCaller]
    /\ workers = [w \in Callers |-> IdleWorker]
    /\ calls = 0
    /\ inverted_index = {}
    /\ inverted_index_replica = {}
    /\ indexes = [keyword \in {} |-> {}]
    /\ committed_pairs = {}
    /\ routes = {}
    /\ invoked = <<>>
    /\ probe = NoProbe
    /\ executed = <<>>
    /\ loader = NoLoader

NextSnap ==
    \/ LoadSnapshot(1)
    \/ ReplayEvents(1)
    \/ Commit(1)

SpecSnap == InitSnap /\ [][NextSnap]_vars

\* a commit of worker w whose persist call returned Ok
Committed(w) ==
    /\ workers[w].pc = "loaded"
    /\ workers'[w].pc = "done"
    /\ workers'[w].result = "Ok"

\* C33: a commit attaches a snapshot exactly when versioned.seq_nr + 1 is a
\* multiple of the interval; the snapshot has version versioned.version + 1;
\* with an interval of 10 the first snapshot comes with the event of seq_nr
\* 10 and has version 1.
C33_SnapshotOnIntervalWithNextVersion ==
    [][\A w \in Callers : Committed(w) =>
          LET id == workers[w].id
              attached == snapshots'[id] # snapshots[id]
          IN  /\ attached <=> (workers[w].seq_nr + 1) % snapshot_interval = 0
              /\ attached =>
                     /\ snapshots'[id] # None
                     /\ snapshots'[id][1].version = workers[w].version + 1
              /\ (attached /\ snapshots[id] = None /\ snapshot_interval = 10) =>
                     /\ workers[w].seq_nr + 1 = 10
                     /\ snapshots'[id][1].version = 1]_vars

\* with an interval of 10 the event of seq_nr 10 is stored and the first
\* snapshot of the aggregate is there
C33_Witness ==
    /\ snapshot_interval = 10
    /\ Len(events[<<65>>]) = 10
    /\ snapshots[<<65>>] # None
    /\ snapshots[<<65>>][1].version = 1


\* C34: get_snapshot(id) returns state, seq_nr and version of a snapshot row
\* of id itself, and None when id has no snapshot row, whatever rows other
\* aggregates have.
C34_GetSnapshotOwnRowsOnly ==
    [][\A c \in Callers :
          (callers'[c] # callers[c] /\ callers'[c].op = "get_snapshot") =>
              LET id == callers'[c].id
                  got == callers'[c].got
              IN  /\ SnapshotRowsOf(id) = {} => got = None
                  /\ got # None =>
                         \E r \in SnapshotRowsOf(id) :
                             /\ r.payload = got[1].aggregate
                             /\ r.seq_nr = got[1].seq_nr
                             /\ r.version = got[1].version]_vars


\* the offsets r of a commit of n events after sequence s at which s + r is
\* a multiple of the interval
SnapshotOffsets(s, n) == {r \in 0..n : (s + r) % snapshot_interval = 0}

\* C35: for every interval W >= 1, s >= 0 and n >= 0 the rule returns 0
\* exactly when n < W - (s mod W), and otherwise the largest r <= n for
\* which s + r is a multiple of W.
C35_IntervalRule ==
    probe.op = "commit_snapshot_with_addl_events" =>
        LET s == probe.current_sequence
            n == probe.num_events
            W == snapshot_interval
        IN  /\ probe.ret = 0 <=> n < W - (s % W)
            /\ n >= W - (s % W) =>
                   /\ probe.ret \in SnapshotOffsets(s, n)
                   /\ \A r \in SnapshotOffsets(s, n) : r <= probe.ret

\* a call whose events cross more than one multiple of the interval and end
\* beyond the last one
C35_Witness ==
    /\ probe.op = "commit_snapshot_with_addl_events"
    /\ probe.current_sequence % snapshot_interval # 0
    /\ probe.ret > snapshot_interval
    /\ probe.ret < probe.num_events


\* the greatest version among the snapshot rows of an aggregate, 0 without rows
LastVersion(id) ==
    IF SnapshotRowsOf(id) = {} THEN 0
    ELSE CHOOSE v \in {r.version : r \in SnapshotRowsOf(id)} :
             \A r \in SnapshotRowsOf(id) : r.version <= v

\* C36: the snapshots written for an aggregate by commit carry the versions
\* 1, 2, 3, ... in the order they are written: each new snapshot has the
\* version after the last one of its aggregate, the first one has version 1.
C36_SnapshotVersionsCount ==
    [][\A r \in snapshot' \ snapshot : r.version = LastVersion(r.aid) + 1]_vars


\* the integration event is in the store: a row of the outbox table, or an
\* element of the list of the in-memory store
IntegrationEventStored(e) ==
    IF backend = "DynamoDB"
    THEN \E r \in outbox' : r.skey = e.id /\ r.aid = e.aggregate_id /\ r.payload = e.payload
    ELSE \E i \in DOMAIN integration_events' : integration_events'[i] = e

\* C37: a persist call that returns Ok has stored every integration event
\* it was given, also when it was given no domain event and no snapshot.
C37_OkPersistStoresIntegrationEvents ==
    [][\A c \in Callers :
          (/\ callers[c].pc = "persist"
           /\ callers'[c].pc = "done"
           /\ callers'[c].result = "Ok") =>
              \A i \in DOMAIN callers[c].integration_events :
                  IntegrationEventStored(callers[c].integration_events[i])]_vars


(***************************************************************************)
(* The Kinesis lambda of the integration events.  A record of the batch    *)
(* is its data: whether it parses as a stream record, the attributes       *)
(* event_type and payload of its new image, and what the adapter of the    *)
(* processor will answer for it.  probe is the call under way: the         *)
(* records, the index of the next one and the result; invoked collects     *)
(* the calls of the router, each with the index of its record.             *)
(***************************************************************************)
\* "AQ==", the base64 text of the payload <<1>>, and "{", which is no base64
RecordPayloads == {<<65, 81, 61, 61>>, <<123>>}

KinesisRecords ==
    {[json |-> FALSE, event_type |-> None, payload |-> None, adapter |-> "Ok"]}
        \cup {[json |-> TRUE, event_type |-> event_type,
               payload |-> Some([type |-> "B", value |-> value]), adapter |-> adapter] :
                 event_type \in {None, Some([type |-> "S", value |-> <<80>>])},
                 value \in RecordPayloads,
                 adapter \in ProcessorResults}

Batches_(n) == [1..n -> KinesisRecords]

\* integration::helpers::extract_string_attribute
extract_string_attribute(attribute) ==
    IF attribute = None THEN [error |-> "InvalidData", detail |-> "missing", value |-> <<>>]
    ELSE IF attribute[1].type # "S"
    THEN [error |-> "InvalidData", detail |-> "not a string", value |-> <<>>]
    ELSE [error |-> "Ok", detail |-> "", value |-> attribute[1].value]

\* process_single_record: the result, and the call of the router if it was reached
process_single_record(record) ==
    IF ~record.json
    THEN [error |-> "InvalidData", detail |-> "stream record", dispatched |-> <<>>]
    ELSE LET event_type == extract_string_attribute(record.event_type)
             payload_bytes == Integration_extract_binary_attribute(record.payload)
         IN  IF event_type.error # "Ok"
             THEN [error |-> "InvalidData", detail |-> "event_type", dispatched |-> <<>>]
             ELSE IF payload_bytes.error # "Ok"
             THEN [error |-> "InvalidData", detail |-> "payload", dispatched |-> <<>>]
             ELSE LET invocations ==
                          CHOOSE i \in process_bytes(event_type.value, payload_bytes.value) :
                              TRUE
                      r == IF invocations = <<>> THEN [ret |-> "Ok"]
                           ELSE Processor_process_bytes(invocations[1].payload,
                                                        record.adapter)
                  IN  [error |-> IF r.ret = "Ok" THEN "Ok" ELSE "InvalidData",
                       detail |-> IF r.ret = "Ok" THEN "" ELSE "process event",
                       dispatched |-> <<[key |-> event_type.value,
                                         payload |-> payload_bytes.value]>>]

\* a loop that goes on to the next record whatever the result
continue_always(result) == [error |-> "none", detail |-> ""]

\* the ? after process_single_record: the early return of the error
question_mark(result) ==
    IF result.error = "Ok" THEN [error |-> "none", detail |-> ""]
    ELSE [error |-> result.error, detail |-> result.detail]

LambdaUnchanged ==
    UNCHANGED <<dynVars, memVars, backend, snapshot_interval, callers, workers, calls,
                inverted_index, inverted_index_replica, indexes, committed_pairs,
                routes, extVars>>

\* one turn of the loop of process_kinesis_lambda_event
ProcessSingleRecord ==
    /\ probe.op = "process_kinesis_lambda_event"
    /\ probe.ret.error = "none"
    /\ probe.next <= Len(probe.records)
    /\ LET result == process_single_record(probe.records[probe.next])
       IN  /\ invoked' = invoked \o
                  [i \in 1..Len(result.dispatched) |->
                      [record |-> probe.next, key |-> result.dispatched[i].key,
                       payload |-> result.dispatched[i].payload]]
           /\ probe' = [probe EXCEPT !.next = @ + 1, !.ret = question_mark(result)]
    /\ LambdaUnchanged

\* the loop is over: Ok(())
ReturnOk ==
    /\ probe.op = "process_kinesis_lambda_event"
    /\ probe.ret.error = "none"
    /\ probe.next > Len(probe.records)
    /\ probe' = [probe EXCEPT !.ret = [error |-> "Ok", detail |-> ""]]
    /\ invoked' = invoked
    /\ LambdaUnchanged

\* the lambda is invoked with a batch; the router has one route
InitLambda ==
    /\ journal = {}
    /\ journal_aid_index = {}
    /\ snapshot = {}
    /\ outbox = {}
    /\ events = [a \in AggregateIds |-> <<>>]
    /\ snapshots = [a \in AggregateIds |-> None]
    /\ integration_events = <<>>
    /\ backend = "DynamoDB"
    /\ snapshot_interval = 1
    /\ callers = [c \in Callers |-> IdleCaller]
    /\ workers = [w \in Callers |-> IdleWorker]
    /\ calls = 0
    /\ inverted_index = {}
    /\ inverted_index_replica = {}
    /\ indexes = [keyword \in {} |-> {}]
    /\ committed_pairs = {}
    /\ routes = {<<80>>}
    /\ invoked = <<>>
    /\ \E n \in 0..MaxRecords : \E records \in Batches_(n) :
         probe = [op |-> "process_kinesis_lambda_event", records |-> records,
                  next |-> 1, ret |-> [error |-> "none", detail |-> ""]]
    /\ executed = <<>>
    /\ loader = NoLoader

NextLambda ==
    \/ ProcessSingleRecord
    \/ ReturnOk

SpecLambda == InitLambda /\ [][NextLambda]_vars

\* the records of the batch whose processing fails
FailingRecords ==
    {i \in DOMAIN probe.records : process_single_record(probe.records[i]).error # "Ok"}

\* C38: the records reach the router in the order of the batch, none after
\* the first record whose processing fails; the call returns the error of
\* that record, and Ok only after every record was processed.
C38_BatchOrderStopAtFirstFailure ==
    probe.op = "process_kinesis_lambda_event" =>
        /\ \A i, j \in DOMAIN invoked : i < j => invoked[i].record < invoked[j].record
        /\ \A i \in DOMAIN invoked : \A f \in FailingRecords : invoked[i].record <= f
        /\ \A f \in FailingRecords : probe.next <= f + 1
        /\ probe.ret.error = "Ok" =>
               /\ FailingRecords = {}
               /\ probe.next = Len(probe.records) + 1
        /\ probe.ret.error \notin {"none", "Ok"} =>
               /\ probe.next - 1 \in FailingRecords
               /\ probe.ret.detail = process_single_record(probe.records[probe.next - 1]).detail

\* the call returned the error of its second record, which the router had
\* received, with a third record left
C38_Witness ==
    /\ probe.op = "process_kinesis_lambda_event"
    /\ probe.ret.error \notin {"none", "Ok"}
    /\ probe.next = 3
    /\ Len(probe.records) = 3
    /\ Len(invoked) = 2
    /\ process_single_record(probe.records[3]).error = "Ok"


(***************************************************************************)
(* load_aggregates under a fair executor: a load that can start starts, a  *)
(* load in flight completes, a completed collect returns.                  *)
(***************************************************************************)
SpecLoaderFair ==
    /\ SpecLoader
    /\ WF_vars(StartLoad)
    /\ WF_vars(FinishLoad)
    /\ WF_vars(ReturnAggregates)

\* C39: a call of load_aggregates returns, whatever ids the keyword has and
\* whatever limit with_concurrent_limit was given, 0 included.
C39_LoadAggregatesTerminates ==
    (loader.pc = "loading") ~> (loader.pc = "done")

\* C39 for the limits above 0
C39_TerminatesWithPositiveLimit ==
    (loader.pc = "loading" /\ loader.concurrent_limit > 0) ~> (loader.pc = "done")

=============================================================================
